---- MODULE Spec2Model ----
(***************************************************************************)
(* A model of GenericVec<S> (src/src/lib.rs) over its three storage        *)
(* backends: the fixed array [MaybeUninit<T>; N] (src/src/raw/array.rs),   *)
(* the borrowed slice [MaybeUninit<T>] (src/src/raw/slice.rs) and the heap *)
(* buffer (src/src/raw/heap/stable.rs).                                    *)
(*                                                                         *)
(* The buffer is a sequence of slots, one per element of capacity.  A slot *)
(* holds either a live element (a number of Values) or Dead: memory that   *)
(* was never written, or whose element has been moved out or dropped.      *)
(* Indices are 0-based as in the source; slot i of the source is b[i+1].   *)
(* usize is UsizeBits wide, so the wrapping_/checked_ arithmetic of the    *)
(* source wraps and overflows as it does there.                            *)
(***************************************************************************)
EXTENDS Integers, Sequences, FiniteSets, TLC

-----------------------------------------------------------------------------
(* Bounds of the model *)

\* width of usize in bits
UsizeBits == 5

\* size_of::<T>() in bytes (T is not zero sized)
ElemSize == 2

\* the element values are 1..MaxVal
MaxVal == 2

\* N of ArrayVec<T, N>
ArrayN == 3

\* length of the buffer borrowed by a SliceVec
SliceLen == 2

\* the allocator has no block of more than MaxHeapCap elements
MaxHeapCap == 4

\* a HeapVec is built by with_capacity(c), c in 0..MaxWithCapacity
MaxWithCapacity == 1

\* the slices passed to extend_from_slice have at most MaxSliceArg elements
MaxSliceArg == 2

\* src/src/raw/heap.rs:6
INIT_ALLOC_CAPACITY == 4

-----------------------------------------------------------------------------
(* usize arithmetic *)

USIZE_MAX == 2^UsizeBits - 1

\* the None of a checked_ operation, the Err of a layout computation
Overflow == -1

wrapping_add(a, b) == (a + b) % (2^UsizeBits)

wrapping_sub(a, b) == (a - b + 2^UsizeBits) % (2^UsizeBits)

checked_add(a, b) == IF a + b > USIZE_MAX THEN Overflow ELSE a + b

checked_mul(a, b) == IF a * b > USIZE_MAX THEN Overflow ELSE a * b

checked_sub(a, b) == IF a < b THEN Overflow ELSE a - b

Max(a, b) == IF a >= b THEN a ELSE b

Min(a, b) == IF a <= b THEN a ELSE b

-----------------------------------------------------------------------------
(* Slots and raw pointer operations *)

Values == 1..MaxVal

Dead == 0

Slot == Values \cup {Dead}

Backends == {"array", "slice", "heap"}

\* uninit_array(): n slots that were never written
uninit_array(n) == [k \in 1..n |-> Dead]

\* ptr.add(i).write(v)
ptr_write(b, i, v) == [b EXCEPT ![i + 1] = v]

\* the value of ptr.add(i).read(); outside the buffer it is whatever the
\* memory there holds
ptr_read(b, i) == IF i < Len(b) THEN b[i + 1] ELSE Dead

\* the buffer after ptr.add(i).read(): the element has been moved out
moved_out(b, i) == [b EXCEPT ![i + 1] = Dead]

\* ptr.add(dst).copy_from(ptr.add(src), count): a memmove of count elements;
\* the elements now live at the destination, the slots of the source that
\* the destination does not cover are left moved-out
copy_from(b, dst, src, count) ==
    [k \in 1..Len(b) |->
        IF (k - 1) >= dst /\ (k - 1) < dst + count THEN ptr_read(b, (k - 1) - dst + src)
        ELSE IF (k - 1) >= src /\ (k - 1) < src + count THEN Dead
        ELSE b[k]]

\* ptr::drop_in_place of the count slots from index start
drop_in_place(b, start, count) ==
    [k \in 1..Len(b) |->
        IF (k - 1) >= start /\ (k - 1) < start + count THEN Dead ELSE b[k]]

-----------------------------------------------------------------------------
(* State *)

VARIABLES
    backend,    \* which Storage the vector was built with
    allocator,  \* the allocator of a heap backend: its handle ("Global", or
                \*   "A" for a handle of the caller's with a destructor), the
                \*   largest block, in elements, it grants, and how often the
                \*   destructor of the handle the backend holds has run
    len,        \* GenericVec::len
    buf,        \* GenericVec::storage, Len(buf) slots
    op,         \* the call that has just ended ("idle": none): its name,
    arg_i,      \*   its index / length / additional argument (-1: none),
    arg_j,      \*   the end of its range argument (-1: none),
    arg_v,      \*   its value argument (-1: none),
    arg_s,      \*   its slice / iterator argument (<<>>: none),
    outcome,    \*   how it ended,
    ret,        \*   what it returned,
    pre_len,    \*   len when it was called,
    pre_buf,    \*   buf when it was called,
    made,       \*   how many elements its Clone / closure calls produced,
    cb_panic,   \*   whether a Clone / closure call of it panicked,
    dropped,    \*   the slots it ran the destructor on, in order
    adaptor,    \* the iterator that borrows the vector ("none": none),
    raw,        \*   its RawCursor,
    filter,     \*   DrainFilter::filter: the values the predicate accepts,
    panicking,  \*   DrainFilter::panicking,
    replace_with,   \* Splice::replace_with: what the iterator has yet to give,
    yielded_front,  \* what the iterator's next / take_front calls returned,
    yielded_back,   \* what its next_back / take_back calls returned,
    removed,    \* the indices (in pre_buf) of the elements it took or dropped
    into_iter,  \* the IntoIter that owns the vector, if it was turned into one
    other,      \* a second vector of the caller: its backend, len and buf
    pre_other   \*   other when the call was made

\* the iterator borrowing the vector, and what it has done so far
itervars == <<adaptor, raw, filter, panicking, replace_with,
              yielded_front, yielded_back, removed, into_iter>>

\* the second vector
othervars == <<other, pre_other>>

vars == <<backend, allocator, len, buf, op, arg_i, arg_j, arg_v, arg_s, outcome, ret, pre_len, pre_buf,
          made, cb_panic, dropped, itervars, othervars>>

\* How a call ends: "ok" it returned; "panic" it panicked (the vector stays
\* usable after unwinding); "abort" handle_alloc_error ended the process;
\* "ub_crash" / "ub_return" it ran into undefined behaviour (an access outside
\* the buffer or a memmove of a wrapped-around count) and the process
\* faulted / went on.
Outcomes == {"idle", "ok", "panic", "abort", "ub_crash", "ub_return"}

\* the process has ended, or nothing is known about it any more
Halted == outcome \in {"abort", "ub_crash", "ub_return"}

\* the caller is between two calls
Idle == op = "idle"

\* return values
Ret(kind, idx, val) == [kind |-> kind, idx |-> idx, val |-> val]

NoRet == Ret("none", -1, -1)

Unit == Ret("Unit", -1, -1)

None == Ret("None", -1, -1)

Some(v) == Ret("Some", -1, v)

Value(v) == Ret("Value", -1, v)

\* &mut *ptr.add(i), the slot holding v
RefTo(i, v) == Ret("Ref", i, v)

OkRef(i, v) == Ret("OkRef", i, v)

Err(v) == Ret("Err", -1, v)

OkUnit == Ret("Ok", -1, -1)

AllocError == Ret("AllocError", -1, -1)

\* the second vector before the caller has built it
NoVec == [backend |-> "none", len |-> 0, buf |-> <<>>]

\* no IntoIter: the caller still owns the vector; otherwise state is
\* "active" or "dropped", index is IntoIter::index and storage_drops counts
\* the times the destructor of the vector's storage has run
NoIntoIter == [state |-> "none", index |-> 0, storage_drops |-> 0]

\* no RawCursor
NoCursor ==
    [state |-> "none", old_vec_len |-> 0,
     write_front |-> 0, read_front |-> 0, read_back |-> 0, write_back |-> 0]

\* GenericVec::capacity, for a T that is not zero sized
capacity_of(b) == Len(b)

is_empty(l) == l = 0

is_full(l, b) == l = capacity_of(b)

remaining_capacity(l, b) == wrapping_sub(capacity_of(b), l)

\* the elements of the vector: slots [0, len)
Contents == SubSeq(buf, 1, Min(len, Len(buf)))

PreContents == SubSeq(pre_buf, 1, Min(pre_len, Len(pre_buf)))

-----------------------------------------------------------------------------
(* Storage backends *)

\* The number of units of size size_other that old_capacity units of size
\* size_self fill, rounded as asked; Overflow when it is no usize.
capacity(old_capacity, size_self, size_other, round) ==
    LET size == old_capacity * size_self
        units == IF round = "Up" THEN (size + size_other - 1) \div size_other
                 ELSE size \div size_other
    IN IF units > USIZE_MAX THEN Overflow ELSE units

\* Layout::new::<T>() repeated n times: the byte size, Overflow when the
\* multiplication overflows (size_of::<T>() is a multiple of the alignment,
\* so padding_needed_for is 0)
repeat(size, n) == checked_mul(size, n)

\* alloc / realloc return a non-null pointer
AllocSucceeds(new_capacity, alloc_ok) == alloc_ok /\ new_capacity <= allocator.limit

StorageResult(o, b) == [outcome |-> o, buf |-> b]

\* a reserve_slow that grows to what was asked for and no further
reserve_slow_no_doubling(b, new_capacity, on_failure, alloc_ok) ==
    LET cap == Len(b)
        doubled == checked_mul(cap, 2)
    IN IF doubled = Overflow THEN StorageResult("panic", b)
       ELSE LET grown == Max(new_capacity, INIT_ALLOC_CAPACITY)
                layout == repeat(ElemSize, grown)
            IN IF layout = Overflow THEN StorageResult("panic", b)
               ELSE IF ~AllocSucceeds(grown, alloc_ok)
                    THEN IF on_failure = "Abort" THEN StorageResult("abort", b)
                         ELSE StorageResult("err", b)
               ELSE StorageResult("ok", b \o uninit_array(grown - cap))

\* Heap::reserve_slow: "ok" the buffer was grown, "err" it returned false,
\* "panic" an expect failed, "abort" handle_alloc_error
reserve_slow(b, new_capacity, on_failure, alloc_ok) ==
    LET cap == Len(b)
        doubled == checked_mul(cap, 2)
    IN IF doubled = Overflow THEN StorageResult("panic", b)
       ELSE LET grown == Max(Max(new_capacity, doubled), INIT_ALLOC_CAPACITY)
                layout == repeat(ElemSize, grown)
            IN IF layout = Overflow THEN StorageResult("panic", b)
               ELSE IF ~AllocSucceeds(grown, alloc_ok)
                    THEN IF on_failure = "Abort" THEN StorageResult("abort", b)
                         ELSE StorageResult("err", b)
               ELSE StorageResult("ok", b \o uninit_array(grown - cap))

\* <Heap<T> as Storage>::reserve
heap_reserve(b, new_capacity, alloc_ok) ==
    LET nc == capacity(new_capacity, ElemSize, ElemSize, "Up")
    IN IF nc = Overflow THEN StorageResult("panic", b)
       ELSE IF Len(b) < nc
            THEN reserve_slow(b, nc, "Abort", alloc_ok)
            ELSE StorageResult("ok", b)

\* <Heap<T> as Storage>::try_reserve
heap_try_reserve(b, new_capacity, alloc_ok) ==
    LET nc == capacity(new_capacity, ElemSize, ElemSize, "Up")
    IN IF nc = Overflow THEN StorageResult("panic", b)
       ELSE IF Len(b) < nc THEN reserve_slow(b, nc, "Error", alloc_ok)
            ELSE StorageResult("ok", b)

\* a reserve that does not report a request it cannot meet
array_reserve_silent(b, new_capacity) == StorageResult("ok", b)

\* <[MaybeUninit<T>; N] as Storage>::reserve
array_reserve(b, new_capacity) ==
    IF new_capacity > ArrayN THEN StorageResult("panic", b) ELSE StorageResult("ok", b)

\* <[MaybeUninit<T>; N] as Storage>::try_reserve
array_try_reserve(b, new_capacity) ==
    IF new_capacity <= ArrayN THEN StorageResult("ok", b) ELSE StorageResult("err", b)

\* <[MaybeUninit<T>] as Storage>::reserve
slice_reserve(b, new_capacity) ==
    LET nc == capacity(new_capacity, ElemSize, ElemSize, "Up")
    IN IF nc = Overflow \/ nc > Len(b) THEN StorageResult("panic", b)
       ELSE StorageResult("ok", b)

\* <[MaybeUninit<T>] as Storage>::try_reserve
slice_try_reserve(b, new_capacity) ==
    IF new_capacity <= capacity(Len(b), ElemSize, ElemSize, "Down")
    THEN StorageResult("ok", b) ELSE StorageResult("err", b)

\* Storage::reserve of the vector's backend
storage_reserve(bk, b, new_capacity, alloc_ok) ==
    CASE bk = "array" -> array_reserve(b, new_capacity)
      [] bk = "slice" -> slice_reserve(b, new_capacity)
      [] bk = "heap" -> heap_reserve(b, new_capacity, alloc_ok)

\* Storage::try_reserve of the vector's backend
storage_try_reserve(bk, b, new_capacity, alloc_ok) ==
    CASE bk = "array" -> array_try_reserve(b, new_capacity)
      [] bk = "slice" -> slice_try_reserve(b, new_capacity)
      [] bk = "heap" -> heap_try_reserve(b, new_capacity, alloc_ok)

-----------------------------------------------------------------------------
(* GenericVec: reservation *)

\* a reserve that asks the backend for additional slots, not len + additional
reserve_forgets_len(bk, l, b, additional, alloc_ok) ==
    IF remaining_capacity(l, b) < additional
    THEN storage_reserve(bk, b, additional, alloc_ok)
    ELSE StorageResult("ok", b)

\* GenericVec::reserve: "ok", "panic" or "abort", and the buffer afterwards
reserve(bk, l, b, additional, alloc_ok) ==
    IF remaining_capacity(l, b) < additional
    THEN LET new_capacity == checked_add(l, additional)
         IN IF new_capacity = Overflow THEN StorageResult("panic", b)
            ELSE storage_reserve(bk, b, new_capacity, alloc_ok)
    ELSE StorageResult("ok", b)

\* GenericVec::try_reserve: "ok" for Ok(()), "err" for Err(AllocError),
\* "panic" when the backend panics, and the buffer afterwards
try_reserve(bk, l, b, additional, alloc_ok) ==
    IF remaining_capacity(l, b) < additional
    THEN LET new_capacity == checked_add(l, additional)
         IN IF new_capacity = Overflow THEN StorageResult("err", b)
            ELSE storage_try_reserve(bk, b, new_capacity, alloc_ok)
    ELSE StorageResult("ok", b)

\* Heap<T, A>::reserve_slow: whether it drops an allocator handle. It takes
\* the handle out of a ptr::read copy of the box into a local, which is moved
\* into the new box when the allocator succeeds and is dropped when the
\* function returns false or one of its expect calls unwinds
\* (handle_alloc_error ends the process).
reserve_slow_drops_alloc(b, new_capacity, on_failure, alloc_ok) ==
    reserve_slow(b, new_capacity, on_failure, alloc_ok).outcome \in {"err", "panic"}

\* <Heap<T, A> as Storage>::reserve and try_reserve: whether they drop an
\* allocator handle
heap_reserve_drops_alloc(b, new_capacity, on_failure, alloc_ok) ==
    LET nc == capacity(new_capacity, ElemSize, ElemSize, "Up")
    IN /\ nc # Overflow
       /\ Len(b) < nc
       /\ reserve_slow_drops_alloc(b, nc, on_failure, alloc_ok)

\* GenericVec::reserve and try_reserve: how often the destructor of the
\* allocator handle runs; Global has none
handle_drops(bk, l, b, additional, on_failure, alloc_ok) ==
    IF /\ bk = "heap"
       /\ allocator.handle = "A"
       /\ remaining_capacity(l, b) < additional
       /\ checked_add(l, additional) # Overflow
       /\ heap_reserve_drops_alloc(b, checked_add(l, additional), on_failure, alloc_ok)
    THEN 1 ELSE 0

-----------------------------------------------------------------------------
(* GenericVec: the unchecked operations *)

VecResult(l, b, r) == [len |-> l, buf |-> b, ret |-> r]

\* GenericVec::push_unchecked
push_unchecked(l, b, value) ==
    VecResult(wrapping_add(l, 1), ptr_write(b, l, value), RefTo(l, value))

\* insert_unchecked without its copy_from: the element at index is overwritten
insert_unchecked_no_shift(l, b, index, value) ==
    VecResult(wrapping_add(l, 1), ptr_write(b, index, value), RefTo(index, value))

\* GenericVec::insert_unchecked
insert_unchecked(l, b, index, value) ==
    LET shifted == copy_from(b, index + 1, index, wrapping_sub(l, index))
    IN VecResult(wrapping_add(l, 1), ptr_write(shifted, index, value), RefTo(index, value))

\* GenericVec::pop_unchecked
pop_unchecked(l, b) ==
    LET l2 == wrapping_sub(l, 1)
    IN VecResult(l2, moved_out(b, l2), Value(ptr_read(b, l2)))

\* GenericVec::remove_unchecked, for an index the buffer holds after it
\* (index < len)
remove_unchecked(l, b, index) ==
    LET value == ptr_read(b, index)
        taken == moved_out(b, index)
        count == wrapping_sub(wrapping_sub(l, index), 1)
    IN VecResult(wrapping_sub(l, 1), copy_from(taken, index, index + 1, count), Value(value))

\* swap_remove_unchecked without its at.copy_from(end, 1): the last element
\* is not moved into the hole
swap_remove_unchecked_no_move(l, b, index) ==
    VecResult(wrapping_sub(l, 1), moved_out(b, index), Value(ptr_read(b, index)))

\* GenericVec::swap_remove_unchecked, for an index and a last slot inside
\* the buffer
swap_remove_unchecked(l, b, index) ==
    LET at == index
        end == wrapping_sub(l, 1)
        value == ptr_read(b, at)
        taken == moved_out(b, at)
    IN VecResult(wrapping_sub(l, 1), copy_from(taken, at, end, 1), Value(value))

\* remove_unchecked(index) reads slot index and then moves
\* len - index - 1 elements: with index = len the count wraps to usize::MAX
remove_in_bounds(l, b, index) ==
    index < Len(b) /\ index + 1 + wrapping_sub(wrapping_sub(l, index), 1) <= Len(b)

\* swap_remove_unchecked(index) reads slot index and slot len - 1
swap_remove_in_bounds(l, b, index) ==
    index < Len(b) /\ wrapping_sub(l, 1) < Len(b)

\* Extension::grow for a Clone element (clone_grow): additional - 1 clones
\* of value and then value itself are pushed into the spare capacity, and
\* the length is moved past them
clone_grow(l, b, additional, value) ==
    LET written == [k \in 1..Len(b) |->
                      IF (k - 1) >= l /\ (k - 1) < l + additional THEN value ELSE b[k]]
    IN VecResult(l + additional, written, Unit)

\* how a call that runs callbacks ends: the outcome, the vector, the number
\* of elements the callbacks produced, whether one panicked, and the slots
\* whose destructor ran
CallResult(out, l, b, m, p, d) ==
    [outcome |-> out, len |-> l, buf |-> b, made |-> m, cb_panic |-> p, dropped |-> d]

\* GenericVec::spare_capacity_mut and push_unchecked on the view: vals are
\* written into the slots from l on
spare_push_all(b, l, vals) ==
    [k \in 1..Len(b) |->
        IF (k - 1) >= l /\ (k - 1) < l + Len(vals) THEN vals[k - l] ELSE b[k]]

\* the spare-capacity view is dropped while it holds vals: its Drop destroys
\* them and the vector's length was never touched
spare_dropped(l, b, vals) ==
    CallResult("panic", l, drop_in_place(spare_push_all(b, l, vals), l, Len(vals)),
               Len(vals), TRUE, vals)

\* the view is wrapped in ManuallyDrop and the vector's length is moved past
\* what it holds (save_spare!, the tail of clone_grow)
spare_saved(l, b, vals, m) ==
    CallResult("ok", l + Len(vals), spare_push_all(b, l, vals), m, FALSE, <<>>)

\* clone_grow that keeps what was cloned before the panic, as std's Vec does
clone_grow_unwind_keeps(l, b, value, k) ==
    CallResult("panic", l + (k - 1), spare_push_all(b, l, [i \in 1..(k - 1) |-> value]),
               k - 1, TRUE, <<>>)

\* clone_grow when the k-th value.clone() panics: the writer holds the k - 1
\* clones made so far and is dropped by the unwinding
clone_grow_unwind(l, b, value, k) ==
    spare_dropped(l, b, [i \in 1..(k - 1) |-> value])

\* the closure passed to grow_with: an FnMut with a counter, whose i-th call
\* returns the i-th value counting up from first, wrapping around in Values
closure_value(first, i) == ((first - 1 + (i - 1)) % MaxVal) + 1

\* GenericVec::grow after a successful reserve; the Clone panics on its
\* panic_at-th call (0: never)
extension_grow(l, b, additional, value, panic_at) ==
    IF additional # 0 /\ panic_at >= 1 /\ panic_at <= additional - 1
    THEN clone_grow_unwind(l, b, value, panic_at)
    ELSE LET g == clone_grow(l, b, additional, value)
         IN CallResult("ok", g.len, g.buf, Max(additional - 1, 0), FALSE, <<>>)

\* GenericVec::grow
grow(bk, l, b, additional, value, alloc_ok, panic_at) ==
    LET r == reserve(bk, l, b, additional, alloc_ok)
    IN IF r.outcome = "ok" THEN extension_grow(l, r.buf, additional, value, panic_at)
       ELSE CallResult(r.outcome, l, b, 0, FALSE, <<>>)

\* GenericVec::grow_with; the closure panics on its panic_at-th call
grow_with(bk, l, b, additional, first, alloc_ok, panic_at) ==
    LET r == reserve(bk, l, b, additional, alloc_ok)
    IN IF r.outcome # "ok" THEN CallResult(r.outcome, l, b, 0, FALSE, <<>>)
       ELSE IF panic_at >= 1 /\ panic_at <= additional
            THEN spare_dropped(l, r.buf, [i \in 1..(panic_at - 1) |-> closure_value(first, i)])
            ELSE spare_saved(l, r.buf, [i \in 1..additional |-> closure_value(first, i)],
                             additional)

\* clone_extend_from_slice that forgets the writer before the loop: what
\* was cloned before the panic is neither kept nor dropped
clone_extend_from_slice_leaks(l, b, slice, panic_at) ==
    IF panic_at >= 1 /\ panic_at <= Len(slice)
    THEN CallResult("panic", l, spare_push_all(b, l, SubSeq(slice, 1, panic_at - 1)),
                    panic_at - 1, TRUE, <<>>)
    ELSE spare_saved(l, b, slice, Len(slice))

\* clone_extend_from_slice; the Clone panics on its panic_at-th call
clone_extend_from_slice(l, b, slice, panic_at) ==
    IF panic_at >= 1 /\ panic_at <= Len(slice)
    THEN spare_dropped(l, b, SubSeq(slice, 1, panic_at - 1))
    ELSE spare_saved(l, b, slice, Len(slice))

\* GenericVec::extend_from_slice
extend_from_slice(bk, l, b, slice, alloc_ok, panic_at) ==
    LET r == reserve(bk, l, b, Len(slice), alloc_ok)
    IN IF r.outcome = "ok" THEN clone_extend_from_slice(l, r.buf, slice, panic_at)
       ELSE CallResult(r.outcome, l, b, 0, FALSE, <<>>)

-----------------------------------------------------------------------------
(* RawCursor: the gap engine under cursor, drain, drain_filter and splice.   *)
(* Pointers are slot indices.  [write_front, read_front) and                 *)
(* [read_back, write_back) are the gaps left by what was taken at the front  *)
(* and at the back; [read_front, read_back) is what has not been visited.    *)

\* a check_range that only looks at the end of the range
check_range_fails_end_only(l, start, end) == end > l

\* slice::check_range(len, start..end) panics
check_range_fails(l, start, end) == start > end \/ end > l

\* RawCursor::new: the cursor over [start, end) of a vector of length old
\* (the vector's own length is cut to start for as long as the cursor lives)
RawCursor_new(old, start, end) ==
    [state |-> "active", old_vec_len |-> old,
     write_front |-> start, read_front |-> start, read_back |-> end, write_back |-> end]

\* RawCursor::len
raw_len(c) == c.read_back - c.read_front

\* RawCursor::is_empty
raw_is_empty(c) == c.read_front = c.read_back

\* RawCursor::is_write_empty
is_write_empty(c) == c.write_front = c.write_back

\* RawCursor::at_back_of_vec
at_back_of_vec(c) == c.write_back = c.old_vec_len

\* the cursor, the buffer and the value a cursor operation leaves
CursorResult(c, b, v) == [raw |-> c, buf |-> b, val |-> v]

\* RawCursor::take_front
take_front(c, b) ==
    CursorResult([c EXCEPT !.read_front = @ + 1], moved_out(b, c.read_front),
                 ptr_read(b, c.read_front))

\* RawCursor::take_back
take_back(c, b) ==
    CursorResult([c EXCEPT !.read_back = @ - 1], moved_out(b, c.read_back - 1),
                 ptr_read(b, c.read_back - 1))

\* RawCursor::skip_front: the element at the front boundary is moved down
\* over the front gap
skip_front(c, b) ==
    CursorResult([c EXCEPT !.read_front = @ + 1, !.write_front = @ + 1],
                 IF c.write_front # c.read_front
                 THEN copy_from(b, c.write_front, c.read_front, 1) ELSE b,
                 Dead)

\* RawCursor::skip_back: the element at the back boundary is moved up over
\* the back gap
skip_back(c, b) ==
    CursorResult([c EXCEPT !.read_back = @ - 1, !.write_back = @ - 1],
                 IF c.write_back # c.read_back
                 THEN copy_from(b, c.write_back - 1, c.read_back - 1, 1) ELSE b,
                 Dead)

\* RawCursor::drop_n_front: the next n unvisited elements are destroyed
drop_n_front(c, b, n) ==
    CursorResult([c EXCEPT !.read_front = @ + n], drop_in_place(b, c.read_front, n), Dead)

\* RawCursor::write_front: value is written into the front gap
write_front(c, b, value) ==
    CursorResult([c EXCEPT !.write_front = @ + 1], ptr_write(b, c.write_front, value), Dead)

\* RawCursor::finish (also its Drop): the unvisited elements and then the
\* tail of the vector are moved down over the gaps and the vector's length
\* is set to what is left; a finished cursor is left alone
finish(c, l, b) ==
    IF c.state # "active" THEN [raw |-> c, len |-> l, buf |-> b]
    ELSE LET n == raw_len(c)
             b1 == IF c.write_front # c.read_front
                   THEN copy_from(b, c.write_front, c.read_front, n) ELSE b
             wf == c.write_front + n
             back_len == c.old_vec_len - c.write_back
             b2 == IF wf # c.write_back THEN copy_from(b1, wf, c.write_back, back_len)
                   ELSE b1
         IN [raw |-> [c EXCEPT !.state = "finished", !.write_front = wf,
                               !.read_front = c.read_back],
             len |-> wf + back_len, buf |-> b2]

\* what one DrainFilter::next / next_back call leaves: the cursor, the
\* buffer, how it ended ("None", "Some" or "panic"), the value it returned,
\* how many predicate calls have returned, and the index it took (-1: none)
FilterResult(c, b, kind, v, calls, at) ==
    [raw |-> c, buf |-> b, kind |-> kind, val |-> v, made |-> calls, at |-> at]

\* a DrainFilter::next that takes the elements the predicate rejects
RECURSIVE drain_filter_next_inverted(_, _, _, _, _)
drain_filter_next_inverted(c, b, f, panic_at, calls) ==
    IF raw_is_empty(c) THEN FilterResult(c, b, "None", Dead, calls, -1)
    ELSE IF panic_at = calls + 1 THEN FilterResult(c, b, "panic", Dead, calls, -1)
    ELSE IF ptr_read(b, c.read_front) \notin f
         THEN LET t == take_front(c, b)
              IN FilterResult(t.raw, t.buf, "Some", t.val, calls + 1, c.read_front)
         ELSE LET k == skip_front(c, b)
              IN drain_filter_next_inverted(k.raw, k.buf, f, panic_at, calls + 1)

\* DrainFilter::next, after calls predicate calls; the predicate accepts the
\* values in f and panics on its panic_at-th call (0: never)
RECURSIVE drain_filter_next(_, _, _, _, _)
drain_filter_next(c, b, f, panic_at, calls) ==
    IF raw_is_empty(c) THEN FilterResult(c, b, "None", Dead, calls, -1)
    ELSE IF panic_at = calls + 1 THEN FilterResult(c, b, "panic", Dead, calls, -1)
    ELSE IF ptr_read(b, c.read_front) \in f
         THEN LET t == take_front(c, b)
              IN FilterResult(t.raw, t.buf, "Some", t.val, calls + 1, c.read_front)
         ELSE LET k == skip_front(c, b)
              IN drain_filter_next(k.raw, k.buf, f, panic_at, calls + 1)

\* DrainFilter::next_back
RECURSIVE drain_filter_next_back(_, _, _, _, _)
drain_filter_next_back(c, b, f, panic_at, calls) ==
    IF raw_is_empty(c) THEN FilterResult(c, b, "None", Dead, calls, -1)
    ELSE IF panic_at = calls + 1 THEN FilterResult(c, b, "panic", Dead, calls, -1)
    ELSE IF ptr_read(b, c.read_back - 1) \in f
         THEN LET t == take_back(c, b)
              IN FilterResult(t.raw, t.buf, "Some", t.val, calls + 1, c.read_back - 1)
         ELSE LET k == skip_back(c, b)
              IN drain_filter_next_back(k.raw, k.buf, f, panic_at, calls + 1)

\* what the Drop of a DrainFilter leaves
FilterDropped(c, b, out, calls, d, rem) ==
    [raw |-> c, buf |-> b, outcome |-> out, made |-> calls, dropped |-> d, removed |-> rem]

\* a for_each(drop) that stops after the first element it is given
drain_filter_for_each_drop_first(c, b, f, panic_at, calls, d, rem) ==
    LET n == drain_filter_next(c, b, f, panic_at, calls)
    IN CASE n.kind = "None" -> FilterDropped(n.raw, n.buf, "ok", n.made, d, rem)
         [] n.kind = "panic" -> FilterDropped(n.raw, n.buf, "panic", n.made, d, rem)
         [] OTHER -> FilterDropped(n.raw, n.buf, "ok", n.made, Append(d, n.val),
                                   rem \cup {n.at})

\* self.for_each(drop) of a DrainFilter: next() until it returns None or the
\* predicate panics, each element it returns destroyed at once
RECURSIVE drain_filter_for_each_drop(_, _, _, _, _, _, _)
drain_filter_for_each_drop(c, b, f, panic_at, calls, d, rem) ==
    LET n == drain_filter_next(c, b, f, panic_at, calls)
    IN CASE n.kind = "None" -> FilterDropped(n.raw, n.buf, "ok", n.made, d, rem)
         [] n.kind = "panic" -> FilterDropped(n.raw, n.buf, "panic", n.made, d, rem)
         [] OTHER -> drain_filter_for_each_drop(n.raw, n.buf, f, panic_at, n.made,
                                                Append(d, n.val), rem \cup {n.at})

\* a Drop for DrainFilter that does not look at its panicking flag
drain_filter_drop_always(c, l, b, f, pk, panic_at) ==
    LET e == drain_filter_for_each_drop(c, b, f, panic_at, 0, <<>>, {})
        fin == finish(e.raw, l, e.buf)
    IN [raw |-> fin.raw, len |-> fin.len, buf |-> fin.buf, outcome |-> e.outcome,
        made |-> e.made, dropped |-> e.dropped, removed |-> e.removed,
        panicking |-> pk \/ e.outcome = "panic"]

\* Drop for DrainFilter and then for its RawCursor: unless the predicate has
\* panicked, the rest of the range is filtered and what is taken destroyed;
\* the cursor is finished in every case, also when the predicate panics now
drain_filter_drop(c, l, b, f, pk, panic_at) ==
    LET e == IF ~pk THEN drain_filter_for_each_drop(c, b, f, panic_at, 0, <<>>, {})
             ELSE FilterDropped(c, b, "ok", 0, <<>>, {})
        fin == finish(e.raw, l, e.buf)
    IN [raw |-> fin.raw, len |-> fin.len, buf |-> fin.buf, outcome |-> e.outcome,
        made |-> e.made, dropped |-> e.dropped, removed |-> e.removed,
        panicking |-> pk \/ e.outcome = "panic"]

\* RawCursor::write_slice_front: the slice is moved into the front gap
write_slice_front(c, b, slice) ==
    CursorResult([c EXCEPT !.write_front = @ + Len(slice)],
                 spare_push_all(b, c.write_front, slice), Dead)

\* RawCursor::reserve(space): when the gap is narrower than space the storage
\* is asked for the slots that are missing and the tail of the vector is
\* moved up by as many, which widens the gap to space slots
raw_reserve(c, bk, b, space, alloc_ok) ==
    LET write_space == c.write_back - c.write_front
        increase_by == space - write_space
        back_len == c.old_vec_len - c.write_back
    IN IF space <= write_space THEN [outcome |-> "ok", raw |-> c, buf |-> b]
       ELSE LET r == storage_reserve(bk, b, c.old_vec_len + increase_by, alloc_ok)
            IN IF r.outcome # "ok" THEN [outcome |-> r.outcome, raw |-> c, buf |-> b]
               ELSE [outcome |-> "ok",
                     raw |-> [c EXCEPT !.old_vec_len = @ + increase_by,
                                       !.write_back = @ + increase_by],
                     buf |-> copy_from(r.buf, c.write_back + increase_by, c.write_back,
                                       back_len)]

\* how a call on the vector that may fail in its storage ends
ExtendResult(out, l, b) == [outcome |-> out, len |-> l, buf |-> b]

\* a for_each that pushes nothing unless there is room for every item
push_each_all_or_nothing(bk, l, b, items, alloc_ok) ==
    LET r == reserve(bk, l, b, Len(items), alloc_ok)
    IN IF r.outcome # "ok" THEN ExtendResult(r.outcome, l, b)
       ELSE ExtendResult("ok", l + Len(items),
                         [k \in 1..Len(r.buf) |->
                             IF k > l /\ k <= l + Len(items) THEN items[k - l]
                             ELSE r.buf[k]])

\* iter.for_each(|item| drop(self.push(item)))
RECURSIVE push_each(_, _, _, _, _)
push_each(bk, l, b, items, alloc_ok) ==
    IF items = <<>> THEN ExtendResult("ok", l, b)
    ELSE LET r == IF l = capacity_of(b) THEN reserve(bk, l, b, 1, alloc_ok)
                  ELSE StorageResult("ok", b)
         IN IF r.outcome # "ok" THEN ExtendResult(r.outcome, l, b)
            ELSE LET p == push_unchecked(l, r.buf, Head(items))
                 IN push_each(bk, p.len, p.buf, Tail(items), alloc_ok)

\* <GenericVec as Extend>::extend, for an iterator whose size_hint is exact:
\* the result of try_reserve is ignored
extend(bk, l, b, items, alloc_ok) ==
    LET r == try_reserve(bk, l, b, Len(items), alloc_ok)
    IN IF r.outcome = "panic" THEN ExtendResult("panic", l, b)
       ELSE push_each(bk, l, IF r.outcome = "ok" THEN r.buf ELSE b, items, alloc_ok)

\* Drop for Splice, its loop: replace_with is written into the gap until the
\* gap is full or replace_with has ended; rest is what replace_with still holds
RECURSIVE splice_fill_gap(_, _, _)
splice_fill_gap(c, b, rw) ==
    IF is_write_empty(c) THEN [raw |-> c, buf |-> b, rest |-> rw, ended |-> FALSE]
    ELSE IF rw = <<>> THEN [raw |-> c, buf |-> b, rest |-> rw, ended |-> TRUE]
    ELSE LET w == write_front(c, b, Head(rw))
         IN splice_fill_gap(w.raw, w.buf, Tail(rw))

\* what Drop for Splice leaves: the outcome, the finished cursor, the vector
\* and the elements of the range it destroyed
SpliceDropped(out, c, l, b, d) ==
    [outcome |-> out, raw |-> c, len |-> l, buf |-> b, dropped |-> d]

\* a surplus written over the tail of the vector, no room being made for it
splice_write_rest_no_reserve(c, bk, l, b, temp, alloc_ok, d) ==
    LET w == write_slice_front(c, b, SubSeq(temp, 1, Min(Len(temp), Len(b) - c.write_front)))
        fin == finish(w.raw, l, w.buf)
    IN SpliceDropped("ok", fin.raw, fin.len, fin.buf, d)

\* Drop for Splice, the surplus: what replace_with still holds is collected
\* into temp, the gap is widened to hold it and it is moved in; the cursor is
\* finished when it is dropped, also when reserve panics
splice_write_rest(c, bk, l, b, temp, alloc_ok, d) ==
    LET r == raw_reserve(c, bk, b, Len(temp), alloc_ok)
    IN IF r.outcome # "ok"
       THEN LET fin == finish(c, l, b)
            IN SpliceDropped(r.outcome, fin.raw, fin.len, fin.buf, d)
       ELSE LET w == write_slice_front(r.raw, r.buf, temp)
                fin == finish(w.raw, l, w.buf)
            IN SpliceDropped("ok", fin.raw, fin.len, fin.buf, d)

\* Drop for Splice and then for its RawCursor
splice_drop(c, bk, l, b, rw, alloc_ok) ==
    LET d == SubSeq(b, c.read_front + 1, c.read_back)
        e == drop_n_front(c, b, raw_len(c))
    IN IF at_back_of_vec(e.raw)
       THEN LET fin == finish(e.raw, l, e.buf)
                x == extend(bk, fin.len, fin.buf, rw, alloc_ok)
            IN SpliceDropped(x.outcome, fin.raw, x.len, x.buf, d)
       ELSE LET g == splice_fill_gap(e.raw, e.buf, rw)
            IN IF g.ended
               THEN LET fin == finish(g.raw, l, g.buf)
                    IN SpliceDropped("ok", fin.raw, fin.len, fin.buf, d)
               ELSE splice_write_rest(g.raw, bk, l, g.buf, g.rest, alloc_ok, d)

\* a vector: its backend, its length and its buffer
Vec(bk, l, b) == [backend |-> bk, len |-> l, buf |-> b]

\* the buffer after count elements from index start were moved out of it
moved_out_n(b, start, count) ==
    [k \in 1..Len(b) |->
        IF (k - 1) >= start /\ (k - 1) < start + count THEN Dead ELSE b[k]]

\* ptr.add(dst).copy_from_nonoverlapping(src_buf.add(src), count) into the
\* buffer b of another vector
copy_from_nonoverlapping(b, dst, src_buf, src, count) ==
    [k \in 1..Len(b) |->
        IF (k - 1) >= dst /\ (k - 1) < dst + count
        THEN ptr_read(src_buf, (k - 1) - dst + src) ELSE b[k]]

\* an extend_from_slice_unchecked that copies to the start of the buffer
extend_from_slice_unchecked_at_start(o, src_buf, src, count) ==
    Vec(o.backend, wrapping_add(o.len, count),
        copy_from_nonoverlapping(o.buf, 0, src_buf, src, count))

\* GenericVec::extend_from_slice_unchecked on the vector o, with the slots
\* [src, src + count) of src_buf as the slice
extend_from_slice_unchecked(o, src_buf, src, count) ==
    Vec(o.backend, wrapping_add(o.len, count),
        copy_from_nonoverlapping(o.buf, o.len, src_buf, src, count))

\* Extension::grow for a Copy element (the specialised impl of the nightly
\* build): the length is moved past the new elements first, and value is
\* then written additional times through a pointer that starts at
\* self.as_mut().as_mut_ptr(), the first slot of the buffer
copy_grow(l, b, additional, value) ==
    VecResult(wrapping_add(l, additional),
              [k \in 1..Len(b) |-> IF (k - 1) < additional THEN value ELSE b[k]],
              Unit)

\* GenericVec::grow for a Copy element
grow_copy(bk, l, b, additional, value, alloc_ok) ==
    LET r == reserve(bk, l, b, additional, alloc_ok)
    IN IF r.outcome = "ok"
       THEN LET g == copy_grow(l, r.buf, additional, value)
            IN CallResult("ok", g.len, g.buf, 0, FALSE, <<>>)
       ELSE CallResult(r.outcome, l, b, 0, FALSE, <<>>)

\* GenericVec::extend_from_slice for a Copy element: Extension's specialised
\* impl is extend_from_slice_unchecked
extend_from_slice_copy(bk, l, b, slice, alloc_ok) ==
    LET r == reserve(bk, l, b, Len(slice), alloc_ok)
    IN IF r.outcome = "ok"
       THEN LET e == extend_from_slice_unchecked(Vec(bk, l, r.buf), slice, 0, Len(slice))
            IN CallResult("ok", e.len, e.buf, 0, FALSE, <<>>)
       ELSE CallResult(r.outcome, l, b, 0, FALSE, <<>>)

\* a std Vec: the block its pointer leads to, its length and its capacity
StdVec(b, l, c) == [backend |-> "Vec", len |-> l, buf |-> b, cap |-> c]

\* Heap::into_raw_parts: the pointer to the box's block and the box's length
heap_into_raw_parts(b) == [ptr |-> b, capacity |-> Len(b)]

\* Heap::from_raw_parts: a box over the first cap slots behind ptr
heap_from_raw_parts(ptr, cap) == [k \in 1..cap |-> ptr_read(ptr, k - 1)]

\* a conversion to Vec that gives the Vec no more capacity than it has elements
Vec_from_shrunk(l, b) ==
    LET parts == heap_into_raw_parts(b)
    IN StdVec(parts.ptr, l, l)

\* <Vec<T> as From<HeapVec<T>>>::from: GenericVec::into_raw_parts, then
\* Heap::into_raw_parts, then Vec::from_raw_parts(ptr, length, capacity)
Vec_from(l, b) ==
    LET parts == heap_into_raw_parts(b)
    IN StdVec(parts.ptr, l, parts.capacity)

\* <HeapVec<T> as From<Vec<T>>>::from: the Vec is kept from dropping and its
\* pointer, capacity and length make the Heap and the HeapVec
HeapVec_from(v) == Vec("heap", v.len, heap_from_raw_parts(v.buf, v.cap))

\* what split_off_into leaves: the outcome, self and other
SplitResult(out, l, b, o) == [outcome |-> out, len |-> l, buf |-> b, other |-> o]

\* a split_off_into without its set_len_unchecked(index)
split_off_into_keeps_len(l, b, index, o, alloc_ok) ==
    IF ~(index <= l) THEN SplitResult("panic", l, b, o)
    ELSE LET count == l - index
             r == reserve(o.backend, o.len, o.buf, count, alloc_ok)
         IN IF r.outcome # "ok" THEN SplitResult(r.outcome, l, b, o)
            ELSE SplitResult("ok", l, moved_out_n(b, index, count),
                             extend_from_slice_unchecked(Vec(o.backend, o.len, r.buf),
                                                         b, index, count))

\* a split_off_into that sets self's length to index before other has
\* reserved the room
split_off_into_sets_len_first(l, b, index, o, alloc_ok) ==
    IF ~(index <= l) THEN SplitResult("panic", l, b, o)
    ELSE LET count == l - index
             r == reserve(o.backend, o.len, o.buf, count, alloc_ok)
         IN IF r.outcome # "ok" THEN SplitResult(r.outcome, index, b, o)
            ELSE SplitResult("ok", index, moved_out_n(b, index, count),
                             extend_from_slice_unchecked(Vec(o.backend, o.len, r.buf),
                                                         b, index, count))

\* GenericVec::split_off_into
split_off_into(l, b, index, o, alloc_ok) ==
    IF ~(index <= l) THEN SplitResult("panic", l, b, o)
    ELSE LET count == l - index
             r == reserve(o.backend, o.len, o.buf, count, alloc_ok)
         IN IF r.outcome # "ok" THEN SplitResult(r.outcome, l, b, o)
            ELSE SplitResult("ok", index, moved_out_n(b, index, count),
                             extend_from_slice_unchecked(Vec(o.backend, o.len, r.buf),
                                                         b, index, count))

\* what a call on an IntoIter leaves: the iterator, the vector it owns, what
\* the call returned and the elements it destroyed
IntoIterResult(it, l, b, r, d) == [it |-> it, len |-> l, buf |-> b, ret |-> r, dropped |-> d]

\* IntoIter::next
into_iter_next(it, l, b) ==
    IF it.index = l THEN IntoIterResult(it, l, b, None, <<>>)
    ELSE IntoIterResult([it EXCEPT !.index = @ + 1], l, moved_out(b, it.index),
                        Some(ptr_read(b, it.index)), <<>>)

\* IntoIter::nth: the elements it steps over are destroyed
into_iter_nth(it, l, b, n) ==
    LET k == Min(wrapping_sub(l, it.index), n)
        old_index == it.index
        e == into_iter_next([it EXCEPT !.index = @ + k], l, drop_in_place(b, old_index, k))
    IN IntoIterResult(e.it, e.len, e.buf, e.ret, SubSeq(b, old_index + 1, old_index + k))

\* IntoIter::next_back
into_iter_next_back(it, l, b) ==
    IF it.index = l THEN IntoIterResult(it, l, b, None, <<>>)
    ELSE LET p == pop_unchecked(l, b)
         IN IntoIterResult(it, p.len, p.buf, Some(p.ret.val), <<>>)

\* a Drop for IntoIter that destroys the vector from its first slot
into_iter_drop_from_start(it, l, b) ==
    IntoIterResult([it EXCEPT !.state = "dropped", !.storage_drops = @ + 1],
                   l, drop_in_place(b, 0, l), Unit, SubSeq(b, 1, l))

\* Drop for IntoIter: the elements [index, len) are destroyed and then, by
\* DropAlloc, the storage; the vector itself is in a ManuallyDrop
into_iter_drop(it, l, b) ==
    LET count == wrapping_sub(l, it.index)
    IN IntoIterResult([it EXCEPT !.state = "dropped", !.storage_drops = @ + 1],
                      l, drop_in_place(b, it.index, count), Unit,
                      SubSeq(b, it.index + 1, it.index + count))

\* GenericVec::spare_capacity_mut: a SliceVec, empty, over the slots
\* [len, capacity) of the vector
spare_capacity_mut(l, b) == Vec("slice", 0, SubSeq(b, l + 1, Len(b)))

\* Drop for GenericVec, here for the spare-capacity view: the elements it
\* holds, which live in the slots from l on of the vector's buffer b, are
\* destroyed in place
spare_drop(l, b, view) == drop_in_place(b, l, view.len)

\* a save_spare! that leaves the vector's length where it was
save_spare_keeps_len(l, view) == l

\* save_spare!: the view is wrapped in ManuallyDrop and the vector's length
\* is moved past the elements the view holds
save_spare(l, view) == l + view.len

\* an append that leaves the first element of other where it is
append_from_one(bk, l, b, o, alloc_ok) ==
    LET e == split_off_into(o.len, o.buf, Min(1, o.len), Vec(bk, l, b), alloc_ok)
    IN SplitResult(e.outcome, e.other.len, e.other.buf, Vec(o.backend, e.len, e.buf))

\* GenericVec::append: other.split_off_into(0, self); what it leaves of self
\* (backend bk, length l, buffer b) and of other
append(bk, l, b, o, alloc_ok) ==
    LET e == split_off_into(o.len, o.buf, 0, Vec(bk, l, b), alloc_ok)
    IN SplitResult(e.outcome, e.other.len, e.other.buf, Vec(o.backend, e.len, e.buf))

-----------------------------------------------------------------------------
(* Inputs *)

MaxCap == Max(Max(ArrayN, SliceLen), MaxHeapCap)

\* indices and lengths passed by the caller: inside, at and past the end
IndexInputs == 0..(MaxCap + 1)

\* additional capacities asked for: small ones, one whose byte size
\* overflows usize, and usize::MAX
AdditionalInputs == (0..(MaxCap + 1)) \cup {USIZE_MAX \div ElemSize + 1, USIZE_MAX}

\* which call of a Clone or closure panics; 0: none does
PanicInputs == 0..MaxCap

\* the slices passed by the caller
SliceInputs == UNION {[1..n -> Values] : n \in 0..MaxSliceArg}

-----------------------------------------------------------------------------
(* Initial state: an empty vector over a fresh backend *)

\* an allocator handle, none of whose copies has been dropped
Allocator(handle, limit) == [handle |-> handle, limit |-> limit, drops |-> 0]

InitialCapacities(bk) ==
    CASE bk = "array" -> {ArrayN}
      [] bk = "slice" -> {SliceLen}
      [] bk = "heap" -> 0..MaxWithCapacity

InitState(alloc) ==
    /\ backend \in Backends
    /\ allocator = alloc
    /\ len = 0
    /\ \E c \in InitialCapacities(backend) : buf = uninit_array(c)
    /\ op = "idle"
    /\ arg_i = -1
    /\ arg_j = -1
    /\ arg_v = -1
    /\ arg_s = <<>>
    /\ outcome = "idle"
    /\ ret = NoRet
    /\ pre_len = 0
    /\ pre_buf = buf
    /\ made = 0
    /\ cb_panic = FALSE
    /\ dropped = <<>>
    /\ adaptor = "none"
    /\ raw = NoCursor
    /\ filter = {}
    /\ panicking = FALSE
    /\ replace_with = <<>>
    /\ yielded_front = <<>>
    /\ yielded_back = <<>>
    /\ removed = {}
    /\ into_iter = NoIntoIter
    /\ other = NoVec
    /\ pre_other = NoVec

\* the vectors of the default build allocate from Global
Init == InitState(Allocator("Global", MaxHeapCap))

-----------------------------------------------------------------------------
(* The public operations *)

\* the call o(i, v, s) ended as out, returned r and left length l and buffer
\* b; its callbacks produced m elements, panicked or not (p), and it
\* destroyed the slots d
CallRecord(o, i, v, s, out, r, l, b, m, p, d) ==
    /\ op' = o
    /\ arg_i' = i
    /\ arg_j' = -1
    /\ arg_v' = v
    /\ arg_s' = s
    /\ outcome' = out
    /\ ret' = r
    /\ len' = l
    /\ buf' = b
    /\ pre_len' = len
    /\ pre_buf' = buf
    /\ made' = m
    /\ cb_panic' = p
    /\ dropped' = d
    /\ UNCHANGED <<backend, itervars, othervars>>

\* the same, of a vector whose allocator handle is Global: to drop a copy
\* of Global does nothing
CallUser(o, i, v, s, out, r, l, b, m, p, d) ==
    /\ CallRecord(o, i, v, s, out, r, l, b, m, p, d)
    /\ UNCHANGED allocator

\* a call that runs no callback and destroys no slot
Call(o, i, v, out, r, l, b) == CallUser(o, i, v, <<>>, out, r, l, b, 0, FALSE, <<>>)

\* the call panicked or aborted before it changed anything
Failed(o, i, v, out) == Call(o, i, v, out, NoRet, len, buf)

\* the call ran into undefined behaviour after set_len_unchecked(l2): the
\* process faults, or goes on with whatever was in the memory it read
Undefined(o, i, v, r, l2) ==
    \E crash \in BOOLEAN :
        IF crash THEN Failed(o, i, v, "ub_crash")
        ELSE Call(o, i, v, "ub_return", r, l2, buf)

\* GenericVec::push
Push(value, alloc_ok) ==
    /\ Idle
    /\ LET r == IF len = capacity_of(buf) THEN reserve(backend, len, buf, 1, alloc_ok)
                ELSE StorageResult("ok", buf)
       IN IF r.outcome = "ok"
          THEN LET p == push_unchecked(len, r.buf, value)
               IN Call("push", -1, value, "ok", p.ret, p.len, p.buf)
          ELSE Failed("push", -1, value, r.outcome)

\* GenericVec::try_push
TryPush(value) ==
    /\ Idle
    /\ IF is_full(len, buf) THEN Call("try_push", -1, value, "ok", Err(value), len, buf)
       ELSE LET p == push_unchecked(len, buf, value)
            IN Call("try_push", -1, value, "ok", OkRef(p.ret.idx, p.ret.val), p.len, p.buf)

\* a bounds check of insert that is off by one
insert_check_off_by_one(index, l) == index > l + 1

\* the bounds check of GenericVec::insert
insert_check_fails(index, l) == index > l

\* GenericVec::insert
Insert(index, value, alloc_ok) ==
    /\ Idle
    /\ IF insert_check_fails(index, len) THEN Failed("insert", index, value, "panic")
       ELSE LET r == IF is_full(len, buf) THEN reserve(backend, len, buf, 1, alloc_ok)
                     ELSE StorageResult("ok", buf)
            IN IF r.outcome = "ok"
               THEN LET p == insert_unchecked(len, r.buf, index, value)
                    IN Call("insert", index, value, "ok", p.ret, p.len, p.buf)
               ELSE Failed("insert", index, value, r.outcome)

\* a check of try_insert that fails only when both conditions hold
try_insert_check_and(index, l, b) == is_full(l, b) /\ index > l

\* the check of GenericVec::try_insert
try_insert_check_fails(index, l, b) == is_full(l, b) \/ index > l

\* GenericVec::try_insert
TryInsert(index, value) ==
    /\ Idle
    /\ IF try_insert_check_fails(index, len, buf)
       THEN Call("try_insert", index, value, "ok", Err(value), len, buf)
       ELSE LET p == insert_unchecked(len, buf, index, value)
            IN Call("try_insert", index, value, "ok", OkRef(p.ret.idx, p.ret.val), p.len, p.buf)

\* GenericVec::pop
Pop ==
    /\ Idle
    /\ IF is_empty(len) THEN Failed("pop", -1, -1, "panic")
       ELSE LET p == pop_unchecked(len, buf)
            IN Call("pop", -1, -1, "ok", p.ret, p.len, p.buf)

\* GenericVec::try_pop
TryPop ==
    /\ Idle
    /\ IF is_empty(len) THEN Call("try_pop", -1, -1, "ok", None, len, buf)
       ELSE LET p == pop_unchecked(len, buf)
            IN Call("try_pop", -1, -1, "ok", Some(p.ret.val), p.len, p.buf)

\* the bounds check of GenericVec::remove
remove_check_fails(index, l) == index > l

\* GenericVec::remove
Remove(index) ==
    /\ Idle
    /\ IF remove_check_fails(index, len) THEN Failed("remove", index, -1, "panic")
       ELSE IF remove_in_bounds(len, buf, index)
            THEN LET p == remove_unchecked(len, buf, index)
                 IN Call("remove", index, -1, "ok", p.ret, p.len, p.buf)
            ELSE Undefined("remove", index, -1, Value(Dead), wrapping_sub(len, 1))

\* the bounds check of GenericVec::try_remove
try_remove_check_fails(index, l) == l < index

\* GenericVec::try_remove
TryRemove(index) ==
    /\ Idle
    /\ IF try_remove_check_fails(index, len)
       THEN Call("try_remove", index, -1, "ok", None, len, buf)
       ELSE IF remove_in_bounds(len, buf, index)
            THEN LET p == remove_unchecked(len, buf, index)
                 IN Call("try_remove", index, -1, "ok", Some(p.ret.val), p.len, p.buf)
            ELSE Undefined("try_remove", index, -1, Some(Dead), wrapping_sub(len, 1))

\* the bounds check of GenericVec::swap_remove
swap_remove_check_fails(index, l) == index > l

\* GenericVec::swap_remove
SwapRemove(index) ==
    /\ Idle
    /\ IF swap_remove_check_fails(index, len) THEN Failed("swap_remove", index, -1, "panic")
       ELSE IF swap_remove_in_bounds(len, buf, index)
            THEN LET p == swap_remove_unchecked(len, buf, index)
                 IN Call("swap_remove", index, -1, "ok", p.ret, p.len, p.buf)
            ELSE Undefined("swap_remove", index, -1, Value(Dead), wrapping_sub(len, 1))

\* the bounds check of GenericVec::try_swap_remove
try_swap_remove_check(index, l) == index < l

\* GenericVec::try_swap_remove
TrySwapRemove(index) ==
    /\ Idle
    /\ IF try_swap_remove_check(index, len)
       THEN LET p == swap_remove_unchecked(len, buf, index)
            IN Call("try_swap_remove", index, -1, "ok", Some(p.ret.val), p.len, p.buf)
       ELSE Call("try_swap_remove", index, -1, "ok", None, len, buf)

\* a truncate that cuts to the new length but destroys nothing
truncate_keeps_tail(l, b, n) ==
    LET diff == checked_sub(l, n)
    IN IF diff # Overflow THEN VecResult(n, b, Unit)
       ELSE VecResult(l, b, Unit)

\* GenericVec::truncate: the length and the buffer afterwards
truncate(l, b, n) ==
    LET diff == checked_sub(l, n)
    IN IF diff # Overflow THEN VecResult(n, drop_in_place(b, n, diff), Unit)
       ELSE VecResult(l, b, Unit)

\* GenericVec::truncate
Truncate(n) ==
    /\ Idle
    /\ LET t == truncate(len, buf, n)
       IN CallUser("truncate", n, -1, <<>>, "ok", Unit, t.len, t.buf,
                   0, FALSE, SubSeq(buf, n + 1, len))

\* GenericVec::clear
Clear ==
    /\ Idle
    /\ LET t == truncate(len, buf, 0)
       IN CallUser("clear", -1, -1, <<>>, "ok", Unit, t.len, t.buf,
                   0, FALSE, SubSeq(buf, 1, len))

\* GenericVec::set_len
SetLen(n) ==
    /\ Idle
    /\ IF n <= capacity_of(buf) THEN Call("set_len", n, -1, "ok", Unit, n, buf)
       ELSE Failed("set_len", n, -1, "panic")

\* GenericVec::reserve
Reserve(additional, alloc_ok) ==
    /\ Idle
    /\ LET r == reserve(backend, len, buf, additional, alloc_ok)
       IN IF r.outcome = "ok" THEN Call("reserve", additional, -1, "ok", Unit, len, r.buf)
          ELSE Failed("reserve", additional, -1, r.outcome)

\* GenericVec::try_reserve
TryReserve(additional, alloc_ok) ==
    /\ Idle
    /\ LET r == try_reserve(backend, len, buf, additional, alloc_ok)
       IN CASE r.outcome = "ok" -> Call("try_reserve", additional, -1, "ok", OkUnit, len, r.buf)
            [] r.outcome = "err" -> Call("try_reserve", additional, -1, "ok", AllocError, len, r.buf)
            [] OTHER -> Failed("try_reserve", additional, -1, r.outcome)

\* the call o(i, v, s) ended as the CallResult g says
CallEnds(o, i, v, s, g) ==
    CallUser(o, i, v, s, g.outcome, IF g.outcome = "ok" THEN Unit ELSE NoRet,
             g.len, g.buf, g.made, g.cb_panic, g.dropped)

\* GenericVec::grow
Grow(additional, value, alloc_ok, panic_at) ==
    /\ Idle
    /\ CallEnds("grow", additional, value, <<>>,
                grow(backend, len, buf, additional, value, alloc_ok, panic_at))

\* GenericVec::grow_with
GrowWith(additional, first, alloc_ok, panic_at) ==
    /\ Idle
    /\ CallEnds("grow_with", additional, first, <<>>,
                grow_with(backend, len, buf, additional, first, alloc_ok, panic_at))

\* GenericVec::resize
Resize(new_len, value, alloc_ok, panic_at) ==
    /\ Idle
    /\ LET additional == checked_sub(new_len, len)
       IN CASE additional = 0 -> Call("resize", new_len, value, "ok", Unit, len, buf)
            [] additional = Overflow ->
                    LET t == truncate(len, buf, new_len)
                    IN CallUser("resize", new_len, value, <<>>, "ok", Unit, t.len, t.buf,
                                0, FALSE, SubSeq(buf, new_len + 1, len))
            [] OTHER ->
                    CallEnds("resize", new_len, value, <<>>,
                             grow(backend, len, buf, additional, value, alloc_ok, panic_at))

\* GenericVec::extend_from_slice
ExtendFromSlice(slice, alloc_ok, panic_at) ==
    /\ Idle
    /\ CallEnds("extend_from_slice", -1, -1, slice,
                extend_from_slice(backend, len, buf, slice, alloc_ok, panic_at))

-----------------------------------------------------------------------------
(* Iterators over a range of the vector *)

\* the iterator k over the cursor c, its fields and what it has done
IterIs(k, c, f, pk, rw, yf, yb, rem) ==
    /\ adaptor' = k
    /\ raw' = c
    /\ filter' = f
    /\ panicking' = pk
    /\ replace_with' = rw
    /\ yielded_front' = yf
    /\ yielded_back' = yb
    /\ removed' = rem
    /\ UNCHANGED into_iter

\* the call o on the iterator ended as out and returned r; the vector is
\* left with length l and buffer b
IterCall(o, out, r, l, b, m, p, d) ==
    /\ op' = o
    /\ outcome' = out
    /\ ret' = r
    /\ len' = l
    /\ buf' = b
    /\ made' = m
    /\ cb_panic' = p
    /\ dropped' = d
    /\ UNCHANGED <<backend, allocator, arg_i, arg_j, arg_v, arg_s, pre_len, pre_buf, othervars>>

\* an iterator over the vector is alive
Borrowed(k) == adaptor = k /\ raw.state = "active" /\ ~Halted

\* a raw_cursor whose cursor runs from start to the end of the vector
MakeIter_to_end(k, start, end, f, rw) ==
    /\ Idle
    /\ op' = k
    /\ arg_i' = start
    /\ arg_j' = end
    /\ arg_v' = -1
    /\ arg_s' = rw
    /\ ret' = NoRet
    /\ pre_len' = len
    /\ pre_buf' = buf
    /\ made' = 0
    /\ cb_panic' = FALSE
    /\ dropped' = <<>>
    /\ UNCHANGED <<backend, allocator, buf, othervars>>
    /\ IF check_range_fails(len, start, end)
       THEN outcome' = "panic" /\ UNCHANGED <<len, itervars>>
       ELSE /\ outcome' = "ok"
            /\ len' = start
            /\ IterIs(k, RawCursor_new(len, start, len), f, FALSE, rw, <<>>, <<>>, {})

\* a raw_cursor that leaves the vector its length while the cursor lives
MakeIter_keeps_len(k, start, end, f, rw) ==
    /\ Idle
    /\ op' = k
    /\ arg_i' = start
    /\ arg_j' = end
    /\ arg_v' = -1
    /\ arg_s' = rw
    /\ ret' = NoRet
    /\ pre_len' = len
    /\ pre_buf' = buf
    /\ made' = 0
    /\ cb_panic' = FALSE
    /\ dropped' = <<>>
    /\ UNCHANGED <<backend, allocator, buf, othervars>>
    /\ IF check_range_fails(len, start, end)
       THEN outcome' = "panic" /\ UNCHANGED <<len, itervars>>
       ELSE /\ outcome' = "ok"
            /\ len' = len
            /\ IterIs(k, RawCursor_new(len, start, end), f, FALSE, rw, <<>>, <<>>, {})

\* GenericVec::raw_cursor(start..end), wrapped as the iterator k with the
\* predicate f or the replacement rw
MakeIter(k, start, end, f, rw) ==
    /\ Idle
    /\ op' = k
    /\ arg_i' = start
    /\ arg_j' = end
    /\ arg_v' = -1
    /\ arg_s' = rw
    /\ ret' = NoRet
    /\ pre_len' = len
    /\ pre_buf' = buf
    /\ made' = 0
    /\ cb_panic' = FALSE
    /\ dropped' = <<>>
    /\ UNCHANGED <<backend, allocator, buf, othervars>>
    /\ IF check_range_fails(len, start, end)
       THEN outcome' = "panic" /\ UNCHANGED <<len, itervars>>
       ELSE /\ outcome' = "ok"
            /\ len' = start
            /\ IterIs(k, RawCursor_new(len, start, end), f, FALSE, rw, <<>>, <<>>, {})

\* mem::forget of the iterator: its Drop, and its cursor's, never run
Forget ==
    /\ \E k \in {"cursor", "drain", "drain_filter", "splice"} : Borrowed(k)
    /\ IterCall("forget", "ok", Unit, len, buf, 0, FALSE, <<>>)
    /\ raw' = [raw EXCEPT !.state = "leaked"]
    /\ UNCHANGED <<adaptor, filter, panicking, replace_with,
                   yielded_front, yielded_back, removed, into_iter>>

\* GenericVec::raw_cursor, the cursor handed to the caller as it is
RawCursor(start, end) == MakeIter("raw_cursor", start, end, {}, <<>>)

\* GenericVec::drain
Drain(start, end) == MakeIter("drain", start, end, {}, <<>>)

\* a Drain::next that takes from the back of the range
DrainNext_takes_back ==
    /\ Borrowed("drain")
    /\ IF raw_is_empty(raw)
       THEN IterCall("next", "ok", None, len, buf, 0, FALSE, <<>>) /\ UNCHANGED itervars
       ELSE LET t == take_back(raw, buf)
            IN /\ IterCall("next", "ok", Some(t.val), len, t.buf, 0, FALSE, <<>>)
               /\ IterIs(adaptor, t.raw, filter, panicking, replace_with,
                         Append(yielded_front, t.val), yielded_back,
                         removed \cup {raw.read_back - 1})

\* Drain::next
DrainNext ==
    /\ Borrowed("drain")
    /\ IF raw_is_empty(raw)
       THEN IterCall("next", "ok", None, len, buf, 0, FALSE, <<>>) /\ UNCHANGED itervars
       ELSE LET t == take_front(raw, buf)
            IN /\ IterCall("next", "ok", Some(t.val), len, t.buf, 0, FALSE, <<>>)
               /\ IterIs(adaptor, t.raw, filter, panicking, replace_with,
                         Append(yielded_front, t.val), yielded_back,
                         removed \cup {raw.read_front})

\* Drain::size_hint: the lower bound and the upper bound
size_hint(c) == [lower |-> raw_len(c), upper |-> Some(raw_len(c))]

\* a Drain::next_back that takes from the front of the range
DrainNextBack_takes_front ==
    /\ Borrowed("drain")
    /\ IF raw_is_empty(raw)
       THEN IterCall("next_back", "ok", None, len, buf, 0, FALSE, <<>>) /\ UNCHANGED itervars
       ELSE LET t == take_front(raw, buf)
            IN /\ IterCall("next_back", "ok", Some(t.val), len, t.buf, 0, FALSE, <<>>)
               /\ IterIs(adaptor, t.raw, filter, panicking, replace_with,
                         yielded_front, Append(yielded_back, t.val),
                         removed \cup {raw.read_front})

\* Drain::next_back
DrainNextBack ==
    /\ Borrowed("drain")
    /\ IF raw_is_empty(raw)
       THEN IterCall("next_back", "ok", None, len, buf, 0, FALSE, <<>>) /\ UNCHANGED itervars
       ELSE LET t == take_back(raw, buf)
            IN /\ IterCall("next_back", "ok", Some(t.val), len, t.buf, 0, FALSE, <<>>)
               /\ IterIs(adaptor, t.raw, filter, panicking, replace_with,
                         yielded_front, Append(yielded_back, t.val),
                         removed \cup {raw.read_back - 1})

\* a Drain::drop that destroys what is left but the last element
RECURSIVE for_each_drop_but_last(_, _, _)
for_each_drop_but_last(c, b, d) ==
    IF raw_len(c) <= 1 THEN [raw |-> c, buf |-> b, dropped |-> d]
    ELSE LET t == take_front(c, b)
         IN for_each_drop_but_last(t.raw, t.buf, Append(d, t.val))

\* self.for_each(drop): next() until it returns None, each element it
\* returns destroyed at once
RECURSIVE for_each_drop(_, _, _)
for_each_drop(c, b, d) ==
    IF raw_is_empty(c) THEN [raw |-> c, buf |-> b, dropped |-> d]
    ELSE LET t == take_front(c, b)
         IN for_each_drop(t.raw, t.buf, Append(d, t.val))

\* Drop for Drain, and then for its RawCursor
DropDrain ==
    /\ Borrowed("drain")
    /\ LET e == for_each_drop(raw, buf, <<>>)
           f == finish(e.raw, len, e.buf)
       IN /\ IterCall("drop", "ok", Unit, f.len, f.buf, 0, FALSE, e.dropped)
          /\ IterIs(adaptor, f.raw, filter, panicking, replace_with,
                    yielded_front, yielded_back,
                    removed \cup (raw.read_front..(raw.read_back - 1)))

\* GenericVec::drain_filter
DrainFilter(start, end, f) == MakeIter("drain_filter", start, end, f, <<>>)

\* the DrainFilter call o ended as the FilterResult n says
DrainFilterCall(o, n, front) ==
    /\ IterCall(o, IF n.kind = "panic" THEN "panic" ELSE "ok",
                CASE n.kind = "Some" -> Some(n.val)
                  [] n.kind = "None" -> None
                  [] OTHER -> NoRet,
                len, n.buf, n.made, n.kind = "panic", <<>>)
    /\ IterIs(adaptor, n.raw, filter, panicking \/ n.kind = "panic", replace_with,
              IF n.kind = "Some" /\ front THEN Append(yielded_front, n.val)
              ELSE yielded_front,
              IF n.kind = "Some" /\ ~front THEN Append(yielded_back, n.val)
              ELSE yielded_back,
              IF n.kind = "Some" THEN removed \cup {n.at} ELSE removed)

\* DrainFilter::next
DrainFilterNext(panic_at) ==
    /\ Borrowed("drain_filter")
    /\ DrainFilterCall("next", drain_filter_next(raw, buf, filter, panic_at, 0), TRUE)

\* DrainFilter::next_back
DrainFilterNextBack(panic_at) ==
    /\ Borrowed("drain_filter")
    /\ DrainFilterCall("next_back", drain_filter_next_back(raw, buf, filter, panic_at, 0),
                       FALSE)

\* Drop for DrainFilter
DropDrainFilter(panic_at) ==
    /\ Borrowed("drain_filter")
    /\ LET e == drain_filter_drop(raw, len, buf, filter, panicking, panic_at)
       IN /\ IterCall("drop", e.outcome, IF e.outcome = "ok" THEN Unit ELSE NoRet,
                      e.len, e.buf, e.made, e.outcome = "panic", e.dropped)
          /\ IterIs(adaptor, e.raw, filter, e.panicking, replace_with,
                    yielded_front, yielded_back, removed \cup e.removed)

\* GenericVec::retain(keep): a DrainFilter over the whole vector with the
\* negated predicate, dropped in the same statement
Retain(keep, panic_at) ==
    /\ Idle
    /\ LET f == Values \ keep
           e == drain_filter_drop(RawCursor_new(len, 0, len), 0, buf, f, FALSE, panic_at)
       IN /\ op' = "retain"
          /\ arg_i' = 0
          /\ arg_j' = len
          /\ arg_v' = -1
          /\ arg_s' = <<>>
          /\ outcome' = e.outcome
          /\ ret' = IF e.outcome = "ok" THEN Unit ELSE NoRet
          /\ len' = e.len
          /\ buf' = e.buf
          /\ pre_len' = len
          /\ pre_buf' = buf
          /\ made' = e.made
          /\ cb_panic' = (e.outcome = "panic")
          /\ dropped' = e.dropped
          /\ IterIs("drain_filter", e.raw, f, e.panicking, <<>>, <<>>, <<>>, e.removed)
          /\ UNCHANGED <<backend, allocator, othervars>>

\* GenericVec::splice
Splice(start, end, rw) == MakeIter("splice", start, end, {}, rw)

\* Splice::next
SpliceNext ==
    /\ Borrowed("splice")
    /\ IF raw_is_empty(raw)
       THEN IterCall("next", "ok", None, len, buf, 0, FALSE, <<>>) /\ UNCHANGED itervars
       ELSE LET t == take_front(raw, buf)
            IN /\ IterCall("next", "ok", Some(t.val), len, t.buf, 0, FALSE, <<>>)
               /\ IterIs(adaptor, t.raw, filter, panicking, replace_with,
                         Append(yielded_front, t.val), yielded_back,
                         removed \cup {raw.read_front})

\* Splice::next_back
SpliceNextBack ==
    /\ Borrowed("splice")
    /\ IF raw_is_empty(raw)
       THEN IterCall("next_back", "ok", None, len, buf, 0, FALSE, <<>>) /\ UNCHANGED itervars
       ELSE LET t == take_back(raw, buf)
            IN /\ IterCall("next_back", "ok", Some(t.val), len, t.buf, 0, FALSE, <<>>)
               /\ IterIs(adaptor, t.raw, filter, panicking, replace_with,
                         yielded_front, Append(yielded_back, t.val),
                         removed \cup {raw.read_back - 1})

\* Drop for Splice
DropSplice(alloc_ok) ==
    /\ Borrowed("splice")
    /\ LET e == splice_drop(raw, backend, len, buf, replace_with, alloc_ok)
       IN /\ op' = "drop"
          /\ outcome' = e.outcome
          /\ ret' = IF e.outcome = "ok" THEN Unit ELSE NoRet
          /\ len' = e.len
          /\ buf' = e.buf
          /\ made' = 0
          /\ cb_panic' = FALSE
          /\ dropped' = e.dropped
          /\ UNCHANGED <<backend, allocator, arg_i, arg_j, arg_v, arg_s, pre_len, pre_buf, othervars>>
          /\ IterIs(adaptor, e.raw, filter, panicking, replace_with,
                    yielded_front, yielded_back,
                    removed \cup (raw.read_front..(raw.read_back - 1)))

\* GenericVec::cursor
Cursor(start, end) == MakeIter("cursor", start, end, {}, <<>>)

\* the Cursor operation o did t at the front (or at the back) of what is
\* left of the range; yielded_front and yielded_back log what each operation
\* at that end returned, Dead for a skip
CursorStep(o, t, front, at) ==
    /\ Borrowed("cursor")
    /\ ~raw_is_empty(raw)
    /\ IterCall(o, "ok", IF t.val = Dead THEN Unit ELSE Value(t.val), len, t.buf,
                0, FALSE, <<>>)
    /\ IterIs(adaptor, t.raw, filter, panicking, replace_with,
              IF front THEN Append(yielded_front, t.val) ELSE yielded_front,
              IF front THEN yielded_back ELSE Append(yielded_back, t.val),
              IF t.val = Dead THEN removed ELSE removed \cup {at})

\* Cursor::take_front
CursorTakeFront == CursorStep("take_front", take_front(raw, buf), TRUE, raw.read_front)

\* Cursor::take_back
CursorTakeBack == CursorStep("take_back", take_back(raw, buf), FALSE, raw.read_back - 1)

\* Cursor::skip_front
CursorSkipFront == CursorStep("skip_front", skip_front(raw, buf), TRUE, -1)

\* Cursor::skip_back
CursorSkipBack == CursorStep("skip_back", skip_back(raw, buf), FALSE, -1)

\* Drop for Cursor: its RawCursor is finished
DropCursor ==
    /\ Borrowed("cursor")
    /\ LET f == finish(raw, len, buf)
       IN /\ IterCall("drop", "ok", Unit, f.len, f.buf, 0, FALSE, <<>>)
          /\ IterIs(adaptor, f.raw, filter, panicking, replace_with,
                    yielded_front, yielded_back, removed)

\* the caller builds the second vector, empty, over a backend of its choice
NewOther(bk) ==
    /\ Idle
    /\ other = NoVec
    /\ \E c \in InitialCapacities(bk) : other' = Vec(bk, 0, uninit_array(c))
    /\ pre_other' = other'
    /\ UNCHANGED <<backend, allocator, len, buf, op, arg_i, arg_j, arg_v, arg_s, outcome, ret,
                   pre_len, pre_buf, made, cb_panic, dropped, itervars>>

\* other.push(value), when it succeeds
OtherPush(value, alloc_ok) ==
    /\ Idle
    /\ other # NoVec
    /\ LET r == IF other.len = capacity_of(other.buf)
                THEN reserve(other.backend, other.len, other.buf, 1, alloc_ok)
                ELSE StorageResult("ok", other.buf)
           p == push_unchecked(other.len, r.buf, value)
       IN /\ r.outcome = "ok"
          /\ other' = Vec(other.backend, p.len, p.buf)
    /\ pre_other' = other'
    /\ UNCHANGED <<backend, allocator, len, buf, op, arg_i, arg_j, arg_v, arg_s, outcome, ret,
                   pre_len, pre_buf, made, cb_panic, dropped, itervars>>

\* GenericVec::split_off_into(index, &mut other)
SplitOffInto(index, alloc_ok) ==
    /\ Idle
    /\ other # NoVec
    /\ LET e == split_off_into(len, buf, index, other, alloc_ok)
       IN /\ op' = "split_off_into"
          /\ arg_i' = index
          /\ arg_j' = -1
          /\ arg_v' = -1
          /\ arg_s' = <<>>
          /\ outcome' = e.outcome
          /\ ret' = IF e.outcome = "ok" THEN Unit ELSE NoRet
          /\ len' = e.len
          /\ buf' = e.buf
          /\ other' = e.other
          /\ pre_len' = len
          /\ pre_buf' = buf
          /\ pre_other' = other
          /\ made' = 0
          /\ cb_panic' = FALSE
          /\ dropped' = <<>>
          /\ UNCHANGED <<backend, allocator, itervars>>

\* self.append(&mut other)
AppendOther(alloc_ok) ==
    /\ Idle
    /\ other # NoVec
    /\ LET e == append(backend, len, buf, other, alloc_ok)
       IN /\ op' = "append"
          /\ arg_i' = -1
          /\ arg_j' = -1
          /\ arg_v' = -1
          /\ arg_s' = <<>>
          /\ outcome' = e.outcome
          /\ ret' = IF e.outcome = "ok" THEN Unit ELSE NoRet
          /\ len' = e.len
          /\ buf' = e.buf
          /\ other' = e.other
          /\ pre_len' = len
          /\ pre_buf' = buf
          /\ pre_other' = other
          /\ made' = 0
          /\ cb_panic' = FALSE
          /\ dropped' = <<>>
          /\ UNCHANGED <<backend, allocator, itervars>>

\* self.append(&mut other) right after self.split_off_into(i, &mut other)
\* has returned: the record keeps the split's index and what the two vectors
\* were before the split
AppendAfterSplit(alloc_ok) ==
    /\ op = "split_off_into"
    /\ outcome = "ok"
    /\ LET e == append(backend, len, buf, other, alloc_ok)
       IN /\ op' = "split_off_into_append"
          /\ outcome' = e.outcome
          /\ ret' = IF e.outcome = "ok" THEN Unit ELSE NoRet
          /\ len' = e.len
          /\ buf' = e.buf
          /\ other' = e.other
          /\ UNCHANGED <<backend, allocator, arg_i, arg_j, arg_v, arg_s, pre_len, pre_buf, pre_other,
                         made, cb_panic, dropped, itervars>>

\* a call on the spare-capacity view, which is the second vector while it
\* lives: the call o ended as out and returned r, the vector is left with
\* length l and buffer b, the view as view (pview: the view the call found),
\* borrowed as ad says, and d was destroyed
SpareCall(o, v, out, r, l, b, view, pview, ad, d) ==
    /\ op' = o
    /\ arg_i' = -1
    /\ arg_j' = -1
    /\ arg_v' = v
    /\ arg_s' = <<>>
    /\ outcome' = out
    /\ ret' = r
    /\ len' = l
    /\ buf' = b
    /\ other' = view
    /\ pre_other' = pview
    /\ made' = 0
    /\ cb_panic' = FALSE
    /\ dropped' = d
    /\ IterIs(ad, NoCursor, {}, FALSE, <<>>, <<>>, <<>>, {})
    /\ UNCHANGED <<backend, allocator>>

\* let spare = vec.spare_capacity_mut()
SpareCapacityMut ==
    /\ Idle
    /\ other = NoVec
    /\ pre_len' = len
    /\ pre_buf' = buf
    /\ SpareCall("spare_capacity_mut", -1, "ok", Unit, len, buf,
                 spare_capacity_mut(len, buf), NoVec, "spare", <<>>)

\* spare.push(value): GenericVec::push on the view, whose buffer is the
\* vector's spare capacity
SparePush(value) ==
    /\ adaptor = "spare"
    /\ UNCHANGED <<pre_len, pre_buf>>
    /\ LET r == IF other.len = capacity_of(other.buf)
                THEN reserve(other.backend, other.len, other.buf, 1, TRUE)
                ELSE StorageResult("ok", other.buf)
       IN IF r.outcome = "ok"
          THEN LET p == push_unchecked(other.len, r.buf, value)
               IN SpareCall("spare_push", value, "ok", p.ret, len,
                            ptr_write(buf, len + other.len, value),
                            Vec(other.backend, p.len, p.buf), other, "spare", <<>>)
          ELSE SpareCall("spare_push", value, r.outcome, NoRet, len, buf,
                         other, other, "spare", <<>>)

\* drop(spare): the view ends without having been saved
DropSpare ==
    /\ adaptor = "spare"
    /\ UNCHANGED <<pre_len, pre_buf>>
    /\ SpareCall("drop_spare", -1, "ok", Unit, len, spare_drop(len, buf, other),
                 NoVec, other, "none", SubSeq(other.buf, 1, other.len))

\* save_spare!(spare, &mut vec)
SaveSpare ==
    /\ adaptor = "spare"
    /\ UNCHANGED <<pre_len, pre_buf>>
    /\ SpareCall("save_spare", -1, "ok", Unit, save_spare(len, other), buf,
                 NoVec, other, "none", <<>>)

\* the IntoIter is it and has yielded yf from the front and yb from the back
IntoIterIs(it, yf, yb) ==
    /\ into_iter' = it
    /\ yielded_front' = yf
    /\ yielded_back' = yb
    /\ adaptor' = "into_iter"
    /\ UNCHANGED <<raw, filter, panicking, replace_with, removed>>

\* <GenericVec as IntoIterator>::into_iter: the vector is moved into the
\* iterator
IntoIter ==
    /\ Idle
    /\ into_iter = NoIntoIter
    /\ op' = "into_iter"
    /\ arg_i' = -1
    /\ arg_j' = -1
    /\ arg_v' = -1
    /\ arg_s' = <<>>
    /\ outcome' = "ok"
    /\ ret' = Unit
    /\ pre_len' = len
    /\ pre_buf' = buf
    /\ made' = 0
    /\ cb_panic' = FALSE
    /\ dropped' = <<>>
    /\ IntoIterIs([state |-> "active", index |-> 0, storage_drops |-> 0], <<>>, <<>>)
    /\ UNCHANGED <<backend, allocator, len, buf, othervars>>

\* the call o on the IntoIter ended as e says; dropped gathers what the
\* calls on this iterator have destroyed so far
IntoIterCall(o, n, e, front) ==
    /\ into_iter.state = "active"
    /\ op' = o
    /\ arg_i' = n
    /\ outcome' = "ok"
    /\ ret' = e.ret
    /\ len' = e.len
    /\ buf' = e.buf
    /\ dropped' = dropped \o e.dropped
    /\ IntoIterIs(e.it,
                  IF e.ret.kind = "Some" /\ front THEN Append(yielded_front, e.ret.val)
                  ELSE yielded_front,
                  IF e.ret.kind = "Some" /\ ~front THEN Append(yielded_back, e.ret.val)
                  ELSE yielded_back)
    /\ UNCHANGED <<backend, allocator, arg_j, arg_v, arg_s, pre_len, pre_buf, made, cb_panic, othervars>>

\* IntoIter::next
IntoIterNext == IntoIterCall("next", -1, into_iter_next(into_iter, len, buf), TRUE)

\* IntoIter::nth
IntoIterNth(n) == IntoIterCall("nth", n, into_iter_nth(into_iter, len, buf, n), TRUE)

\* IntoIter::next_back
IntoIterNextBack ==
    IntoIterCall("next_back", -1, into_iter_next_back(into_iter, len, buf), FALSE)

\* Drop for IntoIter
DropIntoIter == IntoIterCall("drop", -1, into_iter_drop(into_iter, len, buf), FALSE)

\* GenericVec::grow of a vector of Copy elements
GrowCopy(additional, value, alloc_ok) ==
    /\ Idle
    /\ CallEnds("grow", additional, value, <<>>,
                grow_copy(backend, len, buf, additional, value, alloc_ok))

\* GenericVec::resize of a vector of Copy elements
ResizeCopy(new_len, value, alloc_ok) ==
    /\ Idle
    /\ LET additional == checked_sub(new_len, len)
       IN CASE additional = 0 -> Call("resize", new_len, value, "ok", Unit, len, buf)
            [] additional = Overflow ->
                    LET t == truncate(len, buf, new_len)
                    IN CallUser("resize", new_len, value, <<>>, "ok", Unit, t.len, t.buf,
                                0, FALSE, SubSeq(buf, new_len + 1, len))
            [] OTHER ->
                    CallEnds("resize", new_len, value, <<>>,
                             grow_copy(backend, len, buf, additional, value, alloc_ok))

\* GenericVec::extend_from_slice of a vector of Copy elements
ExtendFromSliceCopy(slice, alloc_ok) ==
    /\ Idle
    /\ CallEnds("extend_from_slice", -1, -1, slice,
                extend_from_slice_copy(backend, len, buf, slice, alloc_ok))

\* Vec::with_capacity(c) of the caller
NewStdVec(c) ==
    /\ Idle
    /\ other = NoVec
    /\ other' = StdVec(uninit_array(c), 0, c)
    /\ pre_other' = other'
    /\ UNCHANGED <<backend, allocator, len, buf, op, arg_i, arg_j, arg_v, arg_s, outcome, ret,
                   pre_len, pre_buf, made, cb_panic, dropped, itervars>>

\* Vec::push within the capacity
StdVecPush(value) ==
    /\ Idle
    /\ other # NoVec
    /\ other.backend = "Vec"
    /\ other.len < other.cap
    /\ other' = StdVec(ptr_write(other.buf, other.len, value), other.len + 1, other.cap)
    /\ pre_other' = other'
    /\ UNCHANGED <<backend, allocator, len, buf, op, arg_i, arg_j, arg_v, arg_s, outcome, ret,
                   pre_len, pre_buf, made, cb_panic, dropped, itervars>>

\* the conversion o between the vector and the caller's Vec ended with
\* length l and buffer b for the vector and v for the Vec; before it they
\* were pl, pb and pv
Conversion(o, l, b, v, pl, pb, pv) ==
    /\ op' = o
    /\ arg_i' = -1
    /\ arg_j' = -1
    /\ arg_v' = -1
    /\ arg_s' = <<>>
    /\ outcome' = "ok"
    /\ ret' = Unit
    /\ len' = l
    /\ buf' = b
    /\ other' = v
    /\ pre_len' = pl
    /\ pre_buf' = pb
    /\ pre_other' = pv
    /\ made' = 0
    /\ cb_panic' = FALSE
    /\ dropped' = <<>>
    /\ UNCHANGED <<backend, allocator, itervars>>

\* let other: Vec<T> = vec.into(): the vector is moved out of
IntoVec ==
    /\ Idle
    /\ backend = "heap"
    /\ other = NoVec
    /\ Conversion("into_vec", 0, <<>>, Vec_from(len, buf), len, buf, other)

\* vec = other.into(), for a vec that owns no block
FromVec ==
    /\ Idle
    /\ backend = "heap"
    /\ other # NoVec
    /\ other.backend = "Vec"
    /\ len = 0
    /\ buf = <<>>
    /\ LET h == HeapVec_from(other)
       IN Conversion("from_vec", h.len, h.buf, NoVec, len, buf, other)

\* the Vec that the vector was turned into is turned back
FromVecAfterIntoVec ==
    /\ op = "into_vec"
    /\ LET h == HeapVec_from(other)
       IN Conversion("into_vec_from_vec", h.len, h.buf, NoVec, pre_len, pre_buf, pre_other)

\* the vector that the Vec was turned into is turned back
IntoVecAfterFromVec ==
    /\ op = "from_vec"
    /\ Conversion("from_vec_into_vec", 0, <<>>, Vec_from(len, buf), pre_len, pre_buf, pre_other)

\* a call of a vector over Heap<T, A> that destroys no slot: as Call, and
\* the destructor of the allocator handle has run k times more
AllocCall(o, i, v, out, r, l, b, k) ==
    /\ CallRecord(o, i, v, <<>>, out, r, l, b, 0, FALSE, <<>>)
    /\ allocator' = [allocator EXCEPT !.drops = @ + k]

\* the backend's allocator handle has not been dropped; what a call does
\* with a dropped handle is undefined
HandleAlive == allocator.drops = 0

\* GenericVec::push of a vector over Heap<T, A>
HeapPush(value, alloc_ok) ==
    /\ Idle
    /\ HandleAlive
    /\ LET grows == len = capacity_of(buf)
           r == IF grows THEN reserve(backend, len, buf, 1, alloc_ok)
                ELSE StorageResult("ok", buf)
           k == IF grows THEN handle_drops(backend, len, buf, 1, "Abort", alloc_ok) ELSE 0
       IN IF r.outcome = "ok"
          THEN LET p == push_unchecked(len, r.buf, value)
               IN AllocCall("push", -1, value, "ok", p.ret, p.len, p.buf, k)
          ELSE AllocCall("push", -1, value, r.outcome, NoRet, len, buf, k)

\* GenericVec::reserve of a vector over Heap<T, A>
HeapReserve(additional, alloc_ok) ==
    /\ Idle
    /\ HandleAlive
    /\ LET r == reserve(backend, len, buf, additional, alloc_ok)
           k == handle_drops(backend, len, buf, additional, "Abort", alloc_ok)
       IN IF r.outcome = "ok" THEN AllocCall("reserve", additional, -1, "ok", Unit, len, r.buf, k)
          ELSE AllocCall("reserve", additional, -1, r.outcome, NoRet, len, buf, k)

\* GenericVec::try_reserve of a vector over Heap<T, A>
HeapTryReserve(additional, alloc_ok) ==
    /\ Idle
    /\ HandleAlive
    /\ LET r == try_reserve(backend, len, buf, additional, alloc_ok)
           k == handle_drops(backend, len, buf, additional, "Error", alloc_ok)
       IN CASE r.outcome = "ok" ->
                    AllocCall("try_reserve", additional, -1, "ok", OkUnit, len, r.buf, k)
            [] r.outcome = "err" ->
                    AllocCall("try_reserve", additional, -1, "ok", AllocError, len, r.buf, k)
            [] OTHER -> AllocCall("try_reserve", additional, -1, r.outcome, NoRet, len, buf, k)

\* The caller takes what the call returned (or catches its panic) and is
\* ready for its next call; nothing follows an abort or undefined behaviour,
\* and the vector stays borrowed while an iterator over it exists.
Return ==
    /\ ~Idle
    /\ ~Halted
    /\ raw.state # "active"
    /\ op' = "idle"
    /\ arg_i' = -1
    /\ arg_j' = -1
    /\ arg_v' = -1
    /\ arg_s' = <<>>
    /\ outcome' = "idle"
    /\ ret' = NoRet
    /\ pre_len' = len
    /\ pre_buf' = buf
    /\ made' = 0
    /\ cb_panic' = FALSE
    /\ dropped' = <<>>
    /\ IterIs("none", NoCursor, {}, FALSE, <<>>, <<>>, <<>>, {})
    /\ pre_other' = other
    /\ UNCHANGED <<backend, allocator, len, buf, other>>

\* whether the allocator has memory left is the allocator's choice; only a
\* heap backend asks it
AllocChoices == IF backend = "heap" THEN BOOLEAN ELSE {TRUE}

Next ==
    \/ \E v \in Values, a \in AllocChoices : Push(v, a)
    \/ \E v \in Values : TryPush(v)
    \/ \E i \in IndexInputs, v \in Values, a \in AllocChoices : Insert(i, v, a)
    \/ \E i \in IndexInputs, v \in Values : TryInsert(i, v)
    \/ Pop
    \/ TryPop
    \/ \E i \in IndexInputs : Remove(i)
    \/ \E i \in IndexInputs : TryRemove(i)
    \/ \E i \in IndexInputs : SwapRemove(i)
    \/ \E i \in IndexInputs : TrySwapRemove(i)
    \/ \E n \in IndexInputs : Truncate(n)
    \/ Clear
    \/ \E n \in IndexInputs : SetLen(n)
    \/ \E n \in AdditionalInputs, a \in AllocChoices : Reserve(n, a)
    \/ \E n \in AdditionalInputs, a \in AllocChoices : TryReserve(n, a)
    \/ \E n \in AdditionalInputs, v \in Values, a \in AllocChoices : Grow(n, v, a, 0)
    \/ Return

Spec == Init /\ [][Next]_vars

\* The operations that run the element's Clone or a caller's closure, any
\* call of which may panic, on the vectors that pushes and pops build.
NextUser ==
    \/ \E v \in Values, a \in AllocChoices : Push(v, a)
    \/ Pop
    \/ \E n \in AdditionalInputs, v \in Values, a \in AllocChoices, k \in PanicInputs :
            Grow(n, v, a, k)
    \/ \E n \in AdditionalInputs, v \in Values, a \in AllocChoices, k \in PanicInputs :
            GrowWith(n, v, a, k)
    \/ \E n \in IndexInputs, v \in Values, a \in AllocChoices, k \in PanicInputs :
            Resize(n, v, a, k)
    \/ \E sl \in SliceInputs, a \in AllocChoices, k \in PanicInputs :
            ExtendFromSlice(sl, a, k)
    \/ Return

SpecUser == Init /\ [][NextUser]_vars

\* the predicates passed by the caller, each the set of values it accepts
FilterInputs == SUBSET Values

\* the ranges passed by the caller: empty ones, whole ones, ones past the end
RangeInputs == IndexInputs \X IndexInputs

\* Drain over a range of the vectors that pushes build, driven step by step
\* by the caller and then dropped.
NextIter ==
    \/ \E v \in Values, a \in AllocChoices : Push(v, a)
    \/ Idle /\ \E r \in RangeInputs : Drain(r[1], r[2])
    \/ DrainNext
    \/ DrainNextBack
    \/ DropDrain
    \/ Return

SpecIter == Init /\ [][NextIter]_vars

\* DrainFilter and retain, with a predicate any call of which may panic; a
\* range that is refused never calls its predicate.
NextFilter ==
    \/ \E v \in Values, a \in AllocChoices : Push(v, a)
    \/ Idle /\ \E r \in RangeInputs, f \in FilterInputs :
            /\ check_range_fails(len, r[1], r[2]) => f = {}
            /\ DrainFilter(r[1], r[2], f)
    \/ \E k \in PanicInputs : k <= raw_len(raw) /\ DrainFilterNext(k)
    \/ \E k \in PanicInputs : k <= raw_len(raw) /\ DrainFilterNextBack(k)
    \/ \E k \in PanicInputs : k <= raw_len(raw) /\ DropDrainFilter(k)
    \/ Idle /\ \E f \in FilterInputs, k \in PanicInputs : k <= len /\ Retain(f, k)
    \/ Return

\* DrainFilter works on the slots and the length alone, never on the
\* storage: its vectors are the array-backed ones
InitArray == Init /\ backend = "array"

SpecFilter == InitArray /\ [][NextFilter]_vars

\* the value pushed next onto a vector that counts up: any value first, then
\* the one after its last element
CountingUp == IF len = 0 THEN Values ELSE {closure_value(buf[len], 2)}

\* the replacements passed by the caller: sequences that count up, of every
\* length up to MaxSliceArg
ReplaceInputs ==
    {<<>>} \cup {[k \in 1..n |-> closure_value(first, k)] :
                    n \in 1..MaxSliceArg, first \in Values}

\* Splice over a range of the vectors that count up, with a replacement
\* shorter than the range, as long, or longer; a range that is refused never
\* looks at its replacement, and the vector a Splice leaves is not spliced
\* again.
NextSplice ==
    \/ \E v \in CountingUp, a \in AllocChoices : Push(v, a)
    \/ Idle /\ \E r \in RangeInputs, rw \in ReplaceInputs :
            /\ check_range_fails(len, r[1], r[2]) => rw = <<>>
            /\ Splice(r[1], r[2], rw)
    \/ SpliceNext
    \/ SpliceNextBack
    \/ \E a \in AllocChoices : DropSplice(a)
    \/ op = "push" /\ Return

SpecSplice == Init /\ [][NextSplice]_vars

\* A cursor over a range of the vectors that count up, moved from both ends
\* by takes and skips and then dropped.
NextCursor ==
    \/ \E v \in CountingUp, a \in AllocChoices : Push(v, a)
    \/ Idle /\ \E r \in RangeInputs : Cursor(r[1], r[2])
    \/ CursorTakeFront
    \/ CursorTakeBack
    \/ CursorSkipFront
    \/ CursorSkipBack
    \/ DropCursor
    \/ op = "push" /\ Return

SpecCursor == Init /\ [][NextCursor]_vars

\* Cursors and iterators that are moved and then forgotten instead of
\* dropped, and the vector used again afterwards.
NextLeak ==
    \/ \E v \in CountingUp, a \in AllocChoices : Push(v, a)
    \/ Clear
    \/ Idle /\ \E r \in RangeInputs : Cursor(r[1], r[2])
    \/ Idle /\ \E r \in RangeInputs : Drain(r[1], r[2])
    \/ Idle /\ \E r \in RangeInputs, f \in FilterInputs :
            /\ check_range_fails(len, r[1], r[2]) => f = {}
            /\ DrainFilter(r[1], r[2], f)
    \/ Idle /\ \E r \in RangeInputs, rw \in ReplaceInputs :
            /\ check_range_fails(len, r[1], r[2]) => rw = <<>>
            /\ Splice(r[1], r[2], rw)
    \/ CursorTakeFront
    \/ CursorTakeBack
    \/ CursorSkipFront
    \/ CursorSkipBack
    \/ DrainNext
    \/ DrainNextBack
    \/ DrainFilterNext(0)
    \/ DrainFilterNextBack(0)
    \/ SpliceNext
    \/ SpliceNextBack
    \/ Forget
    \/ op \in {"push", "clear", "forget"} /\ Return

SpecLeak == Init /\ [][NextLeak]_vars

\* whether the allocator has memory left for the second vector
OtherAllocChoices == IF other.backend = "heap" THEN BOOLEAN ELSE {TRUE}

\* the value pushed next onto a second vector that counts up
OtherCountingUp ==
    IF other.len = 0 THEN Values ELSE {closure_value(other.buf[other.len], 2)}

\* Two vectors that count up, over any two backends, the first split into
\* the second and the second appended to the first.
NextSplit ==
    \/ \E v \in CountingUp, a \in AllocChoices : Push(v, a)
    \/ \E bk \in Backends : NewOther(bk)
    \/ \E v \in OtherCountingUp, a \in OtherAllocChoices : OtherPush(v, a)
    \/ \E i \in IndexInputs, a \in OtherAllocChoices : SplitOffInto(i, a)
    \/ \E a \in AllocChoices : AppendOther(a)
    \/ \E a \in AllocChoices : AppendAfterSplit(a)
    \/ op = "push" /\ Return

SpecSplit == Init /\ [][NextSplit]_vars

\* The spare-capacity view of the vectors that count up: elements are pushed
\* into it and it is then dropped or saved.
NextSpare ==
    \/ \E v \in CountingUp, a \in AllocChoices : Push(v, a)
    \/ SpareCapacityMut
    \/ \E v \in Values : SparePush(v)
    \/ DropSpare
    \/ SaveSpare
    \/ adaptor # "spare" /\ Return

SpecSpare == Init /\ [][NextSpare]_vars

\* The vectors that pushes build, turned into an owning iterator that is
\* consumed from both ends and dropped, exhausted or not.
NextInto ==
    \/ \E v \in Values, a \in AllocChoices : Push(v, a)
    \/ IntoIter
    \/ IntoIterNext
    \/ \E n \in IndexInputs : IntoIterNth(n)
    \/ IntoIterNextBack
    \/ DropIntoIter
    \/ op = "push" /\ Return

SpecInto == Init /\ [][NextInto]_vars

\* the largest block the allocator grants to the vectors that are grown
\* step by step
MaxGrowCap == 4 * MaxHeapCap

\* the allocator handles of a heap backend: Global, and one with a destructor
AllocatorHandles == {"Global", "A"}

InitHeap ==
    /\ \E h \in AllocatorHandles : InitState(Allocator(h, MaxGrowCap))
    /\ backend = "heap"

\* Heap vectors that are pushed onto and reserved for until the allocator
\* gives no more.
NextHeap ==
    \/ \E v \in CountingUp, a \in BOOLEAN : HeapPush(v, a)
    \/ Idle /\ \E n \in AdditionalInputs, a \in BOOLEAN : HeapReserve(n, a)
    \/ Idle /\ \E n \in AdditionalInputs, a \in BOOLEAN : HeapTryReserve(n, a)
    \/ Return

SpecHeap == InitHeap /\ [][NextHeap]_vars

\* One grow, resize or extend_from_slice, whose Clone does not panic, on
\* each vector that counts up: of Clone elements, and of Copy elements, for
\* which the nightly build selects the specialised Extension.
NextExtension ==
    \/ \E v \in CountingUp, a \in AllocChoices : Push(v, a)
    \/ Idle /\ \E n \in AdditionalInputs, v \in Values, a \in AllocChoices : Grow(n, v, a, 0)
    \/ Idle /\ \E n \in AdditionalInputs, v \in Values, a \in AllocChoices : GrowCopy(n, v, a)
    \/ Idle /\ \E n \in IndexInputs, v \in Values, a \in AllocChoices : Resize(n, v, a, 0)
    \/ Idle /\ \E n \in IndexInputs, v \in Values, a \in AllocChoices : ResizeCopy(n, v, a)
    \/ Idle /\ \E s \in SliceInputs, a \in AllocChoices : ExtendFromSlice(s, a, 0)
    \/ Idle /\ \E s \in SliceInputs, a \in AllocChoices : ExtendFromSliceCopy(s, a)
    \/ op = "push" /\ Return

SpecExtension == Init /\ [][NextExtension]_vars

\* The five operations that take a range, with ranges inside the vector,
\* backwards and past its end; the caller catches the panic of a refused
\* range and goes on with the vector.
NextRange ==
    \/ \E v \in CountingUp, a \in AllocChoices : Push(v, a)
    \/ Idle /\ \E r \in RangeInputs : RawCursor(r[1], r[2])
    \/ Idle /\ \E r \in RangeInputs : Cursor(r[1], r[2])
    \/ Idle /\ \E r \in RangeInputs : Drain(r[1], r[2])
    \/ Idle /\ \E r \in RangeInputs, f \in FilterInputs : DrainFilter(r[1], r[2], f)
    \/ Idle /\ \E r \in RangeInputs, rw \in ReplaceInputs : Splice(r[1], r[2], rw)
    \/ (op = "push" \/ outcome = "panic") /\ Return

SpecRange == Init /\ [][NextRange]_vars

\* Heap vectors that count up and Vecs of the caller, turned into each other
\* and back.
NextVec ==
    \/ \E v \in CountingUp, a \in AllocChoices : Push(v, a)
    \/ \E c \in 0..MaxHeapCap : NewStdVec(c)
    \/ \E v \in Values : StdVecPush(v)
    \/ IntoVec
    \/ FromVec
    \/ FromVecAfterIntoVec
    \/ IntoVecAfterFromVec
    \/ op = "push" /\ Return

InitVec == Init /\ backend = "heap"

SpecVec == InitVec /\ [][NextVec]_vars

-----------------------------------------------------------------------------
(* Claims *)

\* the call left the length, the capacity and every slot as they were
Unmodified == len = pre_len /\ buf = pre_buf

\* C1: between calls, length <= capacity, every slot of [0, length) holds a
\* live element and no slot of [length, capacity) holds one.
C1_LengthPartitionsBuffer ==
    outcome \notin {"abort", "ub_crash"} =>
        /\ len <= capacity_of(buf)
        /\ \A k \in 1..Len(buf) : (k <= len) <=> (buf[k] # Dead)

\* C2: push(v) leaves s ++ [v] and returns a reference to the new last
\* element (and succeeds whenever there is spare capacity); pop() on a
\* non-empty s returns its last element and leaves the rest; insert(i, v)
\* with i <= length leaves s[0..i) ++ [v] ++ s[i..) and returns a reference
\* to the element at index i.
C2_PushPopInsert ==
    /\ (op = "push" /\ pre_len < Len(pre_buf)) => outcome = "ok"
    /\ (op = "push" /\ outcome = "ok") =>
            /\ Contents = Append(PreContents, arg_v)
            /\ ret = RefTo(len - 1, arg_v)
            /\ ptr_read(buf, ret.idx) = arg_v
    /\ (op = "pop" /\ pre_len > 0) =>
            /\ outcome = "ok"
            /\ ret = Value(PreContents[pre_len])
            /\ Contents = SubSeq(PreContents, 1, pre_len - 1)
    /\ (op = "insert" /\ arg_i <= pre_len /\ pre_len < Len(pre_buf)) => outcome = "ok"
    /\ (op = "insert" /\ arg_i <= pre_len /\ outcome = "ok") =>
            /\ Contents = SubSeq(PreContents, 1, arg_i) \o <<arg_v>>
                            \o SubSeq(PreContents, arg_i + 1, pre_len)
            /\ ret = RefTo(arg_i, arg_v)
            /\ ptr_read(buf, ret.idx) = arg_v

\* an insert into the middle of a vector whose neighbours differ
C2_Witness ==
    /\ op = "insert" /\ outcome = "ok"
    /\ 0 < arg_i /\ arg_i < pre_len
    /\ PreContents[arg_i] # PreContents[arg_i + 1]
    /\ arg_v # PreContents[arg_i + 1]

\* C3: for i < length, remove(i) returns s[i] and leaves s[0..i) ++ s[i+1..);
\* swap_remove(i) returns s[i], leaves the former last element at index i,
\* every other element in place, and the length one less.
C3_RemoveSwapRemove ==
    /\ (op = "remove" /\ arg_i < pre_len) =>
            /\ outcome = "ok"
            /\ ret = Value(PreContents[arg_i + 1])
            /\ Contents = SubSeq(PreContents, 1, arg_i)
                            \o SubSeq(PreContents, arg_i + 2, pre_len)
    /\ (op = "swap_remove" /\ arg_i < pre_len) =>
            /\ outcome = "ok"
            /\ ret = Value(PreContents[arg_i + 1])
            /\ len = pre_len - 1
            /\ \A k \in 1..len :
                  Contents[k] = IF k = arg_i + 1 THEN PreContents[pre_len]
                                ELSE PreContents[k]

\* a swap_remove of an element that is neither the last nor equal to it
C3_Witness ==
    /\ op = "swap_remove" /\ outcome = "ok"
    /\ arg_i + 1 < pre_len
    /\ PreContents[arg_i + 1] # PreContents[pre_len]

\* C4: remove(i) and swap_remove(i) panic for every i >= length and leave
\* the length and the contents unchanged.
C4_RemovePanicsOutOfBounds ==
    (op \in {"remove", "swap_remove"} /\ arg_i >= pre_len) =>
        outcome = "panic" /\ Unmodified

\* C5: try_remove(i) never panics, returns None without modification when
\* i >= length, and returns Some(s[i]) only when i < length.
C5_TryRemoveNoneOutOfBounds ==
    op = "try_remove" =>
        /\ outcome = "ok"
        /\ arg_i >= pre_len => (ret = None /\ Unmodified)
        /\ ret.kind = "Some" => (arg_i < pre_len /\ ret.val = PreContents[arg_i + 1])

\* C6: try_push on a full vector returns Err(v); try_insert returns Err(v)
\* when the vector is full or i > length; try_pop returns None on an empty
\* vector; try_swap_remove returns None when i >= length.  Each leaves the
\* length, the capacity and the contents as they were.
C6_TryVariantsFail ==
    /\ (op = "try_push" /\ pre_len = Len(pre_buf)) =>
            outcome = "ok" /\ ret = Err(arg_v) /\ Unmodified
    /\ (op = "try_insert" /\ (pre_len = Len(pre_buf) \/ arg_i > pre_len)) =>
            outcome = "ok" /\ ret = Err(arg_v) /\ Unmodified
    /\ (op = "try_pop" /\ pre_len = 0) =>
            outcome = "ok" /\ ret = None /\ Unmodified
    /\ (op = "try_swap_remove" /\ arg_i >= pre_len) =>
            outcome = "ok" /\ ret = None /\ Unmodified

\* try_push on a full, non-empty heap vector: it is not grown
C6_Witness ==
    /\ backend = "heap" /\ op = "try_push"
    /\ pre_len = Len(pre_buf) /\ pre_len > 0
    /\ ret = Err(arg_v)

\* C7: pop() on an empty vector panics and insert(i, v) with i > length
\* panics, before anything is modified or reserved.
C7_PopInsertPanic ==
    /\ (op = "pop" /\ pre_len = 0) => outcome = "panic" /\ Unmodified
    /\ (op = "insert" /\ arg_i > pre_len) => outcome = "panic" /\ Unmodified

\* insert past the end of a full heap vector: a panic, no reservation
C7_Witness ==
    /\ backend = "heap" /\ op = "insert"
    /\ arg_i > pre_len /\ pre_len = Len(pre_buf) /\ pre_len > 0
    /\ outcome = "panic"

\* C8: the capacity of an array-backed or slice-backed vector never changes;
\* a push, insert, grow or reserve that needs more panics and leaves the
\* vector as it was; try_reserve for such a request returns Err and leaves
\* the vector as it was.
C8_FixedCapacity ==
    backend \in {"array", "slice"} =>
        /\ Len(buf) = (IF backend = "array" THEN ArrayN ELSE SliceLen)
        /\ Len(pre_buf) = Len(buf)
        /\ (op = "push" /\ pre_len = Len(pre_buf)) => outcome = "panic" /\ Unmodified
        /\ (op = "insert" /\ arg_i <= pre_len /\ pre_len = Len(pre_buf)) =>
                outcome = "panic" /\ Unmodified
        /\ (op \in {"grow", "reserve"} /\ pre_len + arg_i > Len(pre_buf)) =>
                outcome = "panic" /\ Unmodified
        /\ (op = "try_reserve" /\ pre_len + arg_i > Len(pre_buf)) =>
                outcome = "ok" /\ ret = AllocError /\ Unmodified

\* a grow of a non-empty array-backed vector past its capacity, by an
\* amount that alone would fit
C8_Witness ==
    /\ backend = "array" /\ op = "grow"
    /\ pre_len > 0 /\ arg_i <= ArrayN /\ pre_len + arg_i > ArrayN
    /\ outcome = "panic"

\* C9: when reserve(additional) returns, capacity >= length + additional and
\* the length and the elements are as before; when length + additional
\* overflows usize it panics and modifies nothing.
C9_Reserve ==
    op = "reserve" =>
        /\ outcome = "ok" =>
                /\ capacity_of(buf) >= pre_len + arg_i
                /\ len = pre_len
                /\ Contents = PreContents
        /\ pre_len + arg_i > USIZE_MAX => outcome = "panic" /\ Unmodified

\* a reserve that reallocates a heap buffer holding elements
C9_Witness ==
    /\ backend = "heap" /\ op = "reserve" /\ outcome = "ok"
    /\ Len(pre_buf) > 0 /\ Len(buf) > Len(pre_buf) /\ pre_len > 0

\* C10: try_reserve(additional) never panics or aborts: it returns Ok with
\* capacity >= length + additional, or an allocation error with capacity,
\* length and contents unchanged.
C10_TryReserveNeverPanics ==
    op = "try_reserve" =>
        /\ outcome = "ok"
        /\ \/ /\ ret = OkUnit
              /\ capacity_of(buf) >= pre_len + arg_i
              /\ len = pre_len
              /\ Contents = PreContents
           \/ ret = AllocError /\ Unmodified

\* the call is one of those that clone the element or run a closure, and a
\* Clone / closure call of it panicked
UserPanicIn(ops) == op \in ops /\ cb_panic

\* C11: when T::clone or the grow_with closure panics partway through grow,
\* grow_with, resize or extend_from_slice, the panic reaches the caller, the
\* length and the contents are those before the call, and every element the
\* call had added was destroyed exactly once: each was destroyed while live
\* and its slot is left outside the vector, dead.
C11_PanicDropsAdded ==
    UserPanicIn({"grow", "grow_with", "resize", "extend_from_slice"}) =>
        /\ outcome = "panic"
        /\ len = pre_len
        /\ Contents = PreContents
        /\ Len(dropped) = made
        /\ \A k \in 1..made :
              /\ dropped[k] \in Values
              /\ ptr_read(buf, pre_len + k - 1) = Dead
        /\ op \in {"grow", "resize"} => \A k \in 1..made : dropped[k] = arg_v
        /\ op = "grow_with" => \A k \in 1..made : dropped[k] = closure_value(arg_v, k)
        /\ op = "extend_from_slice" => dropped = SubSeq(arg_s, 1, made)

\* the second clone of a grow panics, on a heap vector that holds elements
\* and had to be reallocated for the call
C11_Witness ==
    /\ op = "grow" /\ cb_panic /\ made = 1
    /\ backend = "heap" /\ pre_len > 0 /\ Len(buf) > Len(pre_buf)

\* C12 as stated: after a Clone panic on the k-th element of grow or
\* extend_from_slice the vector holds its former elements followed by the
\* k-1 clones made before the panic.
C12_PanicKeepsCloned ==
    UserPanicIn({"grow", "extend_from_slice"}) =>
        /\ len = pre_len + made
        /\ Contents = PreContents \o
                (IF op = "grow" THEN [k \in 1..made |-> arg_v] ELSE SubSeq(arg_s, 1, made))

\* C12, amended: after a Clone panic on the k-th element of grow or
\* extend_from_slice the vector holds exactly its former elements; the k-1
\* clones made before the panic have been dropped, none of them twice, and
\* no slot of [0, length) is uninitialized.
C12_PanicKeepsOnlyPrior ==
    UserPanicIn({"grow", "extend_from_slice"}) =>
        /\ Contents = PreContents
        /\ \A k \in 1..len : buf[k] # Dead
        /\ dropped = (IF op = "grow" THEN [k \in 1..made |-> arg_v]
                      ELSE SubSeq(arg_s, 1, made))
        /\ \A k \in (len + 1)..Len(buf) : buf[k] = Dead

\* the second clone of an extend_from_slice panics on a non-empty vector
C12_Witness ==
    /\ op = "extend_from_slice" /\ cb_panic /\ made = 1 /\ Len(arg_s) = 2
    /\ pre_len > 0

\* a sequence back to front
Reverse(q) == [k \in 1..Len(q) |-> q[Len(q) + 1 - k]]

\* s[a..b) of the vector as it was when the iterator was made
PreRange(a, b) == SubSeq(PreContents, a + 1, b)

\* the vector as it was when the iterator was made, without [arg_i, arg_j)
PreWithoutRange == PreRange(0, arg_i) \o PreRange(arg_j, pre_len)

\* the iterator k was made (its range was accepted) and is alive or dropped
Made(k) == adaptor = k /\ raw.state \in {"active", "finished"}

\* C13: drain(a..b) consumed from the front yields s[a], ..., s[b-1] in
\* order and, once dropped, leaves s[0..a) ++ s[b..); over the whole vector
\* it leaves length 0.
C13_DrainFront ==
    (Made("drain") /\ yielded_back = <<>>) =>
        /\ Len(yielded_front) <= arg_j - arg_i
        /\ yielded_front = PreRange(arg_i, arg_i + Len(yielded_front))
        /\ (op = "next" /\ ret = None) => yielded_front = PreRange(arg_i, arg_j)
        /\ (op = "next" /\ ret # None) => ret = Some(yielded_front[Len(yielded_front)])
        /\ (raw.state = "finished" /\ Len(yielded_front) = arg_j - arg_i) =>
                /\ Contents = PreWithoutRange
                /\ (arg_i = 0 /\ arg_j = pre_len) => len = 0

\* a Drain over two different elements inside the vector, consumed from the
\* front to the end and dropped
C13_Witness ==
    /\ Made("drain") /\ raw.state = "finished" /\ yielded_back = <<>>
    /\ arg_i > 0 /\ arg_j < pre_len
    /\ Len(yielded_front) = arg_j - arg_i /\ Len(yielded_front) = 2
    /\ yielded_front[1] # yielded_front[2]

\* C14: when a Drain over a..b is dropped, after any number of next and
\* next_back calls, the vector is s[0..a) ++ s[b..), its length is the
\* former one minus b-a, and every element of the range was either yielded
\* or destroyed, exactly once.
C14_DrainDrop ==
    (Made("drain") /\ op = "drop") =>
        /\ Contents = PreWithoutRange
        /\ len = pre_len - (arg_j - arg_i)
        /\ yielded_front \o dropped \o Reverse(yielded_back) = PreRange(arg_i, arg_j)
        /\ removed = arg_i..(arg_j - 1)
        /\ \A k \in 1..len : buf[k] # Dead

\* a Drain inside the vector dropped with one element yielded and others
\* left to destroy
C14_Witness ==
    /\ Made("drain") /\ op = "drop"
    /\ arg_i > 0 /\ arg_j < pre_len
    /\ Len(yielded_front) + Len(yielded_back) = 1 /\ Len(dropped) >= 1

\* the elements of q whose index (from 0) is not in rem, in order
KeptSeq(q, rem) ==
    LET idx == {i \in 1..Len(q) : (i - 1) \notin rem}
    IN [k \in 1..Cardinality(idx) |->
            q[CHOOSE i \in idx : Cardinality({j \in idx : j < i}) = k - 1]]

\* the indices of the range whose element the predicate accepts
Matches == {i \in arg_i..(arg_j - 1) : PreContents[i + 1] \in filter}

\* the elements of the range the predicate accepts, in order
MatchSeq ==
    LET Accepts(x) == x \in filter
    IN SelectSeq(PreRange(arg_i, arg_j), Accepts)

\* C15: drain_filter(range, p), consumed to the end, in part or not at all
\* before it is dropped, removes exactly the elements of the range that p
\* accepts, yields them in order when consumed from the front, and leaves
\* every other element in its original relative order (retain is the same
\* with the predicate negated, over the whole vector).
C15_DrainFilter ==
    (Made("drain_filter") /\ ~panicking) =>
        /\ yielded_back = <<>> => yielded_front = SubSeq(MatchSeq, 1, Len(yielded_front))
        /\ raw.state = "finished" =>
                /\ removed = Matches
                /\ Contents = KeptSeq(PreContents, Matches)
                /\ yielded_front \o dropped \o Reverse(yielded_back) = MatchSeq

\* a DrainFilter dropped after its first element was yielded, with more to
\* remove and an element to keep between two it removes
C15_Witness ==
    /\ Made("drain_filter") /\ ~panicking /\ op = "drop"
    /\ Len(yielded_front) = 1 /\ Len(dropped) >= 1
    /\ \E i, j, k \in arg_i..(arg_j - 1) :
            i < j /\ j < k /\ i \in removed /\ j \notin removed /\ k \in removed

\* C16: after the predicate of a drain_filter or retain has panicked, the
\* cleanup does not call it again; what was taken stays removed, every other
\* element (the one under test included) stays in the vector in its original
\* relative order with the gap closed, and no slot of [0, length) is dead.
C16_PredicatePanic ==
    (Made("drain_filter") /\ panicking /\ raw.state = "finished") =>
        /\ outcome = "ok" => (made = 0 /\ dropped = <<>>)
        /\ outcome = "panic" => cb_panic
        /\ removed \subseteq Matches
        /\ Cardinality(removed) = Len(yielded_front) + Len(yielded_back) + Len(dropped)
        /\ Contents = KeptSeq(PreContents, removed)
        /\ len = pre_len - Cardinality(removed)
        /\ \A k \in 1..len : buf[k] # Dead

\* a DrainFilter dropped after it yielded an element and its predicate then
\* panicked, with an element it would have removed still in the range
C16_Witness ==
    /\ Made("drain_filter") /\ panicking /\ op = "drop" /\ outcome = "ok"
    /\ Len(yielded_front) >= 1 /\ removed # Matches
    /\ arg_j < pre_len

\* C17: splice(a..b, r) whose result fits the capacity leaves, once the
\* Splice is dropped, s[0..a) ++ r ++ s[b..), for r shorter than the range,
\* as long or longer, for a range at the end of the vector and for an empty
\* vector; the Splice yields the elements of s[a..b), and those it did not
\* yield are destroyed.
C17_Splice ==
    Made("splice") =>
        /\ yielded_back = <<>> =>
                yielded_front = PreRange(arg_i, arg_i + Len(yielded_front))
        /\ op = "drop" =>
            /\ yielded_front \o dropped \o Reverse(yielded_back) = PreRange(arg_i, arg_j)
            /\ pre_len - (arg_j - arg_i) + Len(arg_s) <= capacity_of(pre_buf) =>
                    outcome = "ok"
            /\ outcome = "ok" =>
                    /\ Contents = PreRange(0, arg_i) \o arg_s \o PreRange(arg_j, pre_len)
                    /\ len = pre_len - (arg_j - arg_i) + Len(arg_s)

\* a Splice inside the vector, dropped after it yielded an element, whose
\* replacement is longer than its range
C17_Witness ==
    /\ Made("splice") /\ op = "drop" /\ outcome = "ok"
    /\ arg_i > 0 /\ arg_j < pre_len /\ arg_j > arg_i
    /\ Len(arg_s) > arg_j - arg_i
    /\ Len(yielded_front) = 1

\* the indices of the vector whose element a cursor operation took: the k-th
\* operation at the front is at the k-th element of the range, the k-th at
\* the back at the k-th from its end
Taken ==
    {arg_i + k - 1 : k \in {n \in 1..Len(yielded_front) : yielded_front[n] # Dead}}
        \cup {arg_j - k : k \in {n \in 1..Len(yielded_back) : yielded_back[n] # Dead}}

\* C18: after any sequence of take_front, take_back, skip_front and
\* skip_back on a cursor over a..b, each on a cursor that is not empty, and
\* its drop, the vector holds the elements outside the range, the skipped
\* ones and the ones never visited, in their original order; each take
\* returned the element at its boundary at that time, and the length is the
\* former one minus the number of takes.
C18_Cursor ==
    Made("cursor") =>
        /\ Len(yielded_front) + Len(yielded_back) <= arg_j - arg_i
        /\ \A k \in 1..Len(yielded_front) :
                yielded_front[k] \in {Dead, PreContents[arg_i + k]}
        /\ \A k \in 1..Len(yielded_back) :
                yielded_back[k] \in {Dead, PreContents[arg_j - k + 1]}
        /\ op = "take_front" => ret = Value(PreContents[arg_i + Len(yielded_front)])
        /\ op = "take_back" => ret = Value(PreContents[arg_j - Len(yielded_back) + 1])
        /\ removed = Taken
        /\ raw.state = "finished" =>
                /\ Contents = KeptSeq(PreContents, Taken)
                /\ len = pre_len - Cardinality(Taken)
                /\ \A k \in 1..len : buf[k] # Dead

\* a cursor that starts inside the vector, dropped after a skip and a take
\* at the front and a take at the back
C18_Witness ==
    /\ Made("cursor") /\ op = "drop"
    /\ arg_i > 0
    /\ Len(yielded_front) = 2 /\ yielded_front[1] = Dead /\ yielded_front[2] # Dead
    /\ Len(yielded_back) = 1 /\ yielded_back[1] # Dead

OtherContents == SubSeq(other.buf, 1, Min(other.len, Len(other.buf)))

PreOtherContents == SubSeq(pre_other.buf, 1, Min(pre_other.len, Len(pre_other.buf)))

\* C20: split_off_into(i, other) with i <= length leaves self as s[0..i) and
\* other as o ++ s[i..) (it returns whenever other has room for the
\* length - i elements); each moved element is then owned by other alone,
\* none was cloned or dropped, and self's capacity is what it was; with
\* i > length the call panics and changes nothing.
C20_SplitOffInto ==
    op = "split_off_into" =>
        /\ (arg_i <= pre_len /\ pre_len - arg_i <= Len(pre_other.buf) - pre_other.len) =>
                outcome = "ok"
        /\ (arg_i <= pre_len /\ outcome = "ok") =>
                /\ len = arg_i
                /\ Contents = SubSeq(PreContents, 1, arg_i)
                /\ OtherContents = PreOtherContents \o SubSeq(PreContents, arg_i + 1, pre_len)
                /\ other.len = pre_other.len + (pre_len - arg_i)
                /\ \A k \in (arg_i + 1)..pre_len : buf[k] = Dead
                /\ made = 0 /\ dropped = <<>>
                /\ capacity_of(buf) = capacity_of(pre_buf)
        /\ arg_i > pre_len =>
                /\ outcome = "panic"
                /\ Unmodified
                /\ other = pre_other
        /\ outcome # "ok" => (Unmodified /\ other = pre_other)

\* two elements are split off the middle of a vector into a second vector
\* that held one
C20_Witness ==
    /\ op = "split_off_into" /\ outcome = "ok"
    /\ arg_i > 0 /\ pre_len - arg_i = 2
    /\ pre_other.len = 1

\* C21 as stated: for any i <= length and any vector other,
\* split_off_into(i, other) followed by original.append(other) restores
\* original's element sequence and length.
C21_SplitAppendAnyOther ==
    (op = "split_off_into_append" /\ outcome = "ok") =>
        /\ Contents = PreContents
        /\ len = pre_len

\* C21: for any i <= length and any empty vector other that has room for
\* the length - i elements, split_off_into(i, other) followed by
\* original.append(other) returns and restores original's element sequence
\* and length, leaving other empty; an other that held elements o leaves
\* s[0..i) ++ o ++ s[i..) instead.
C21_SplitAppend ==
    op = "split_off_into_append" =>
        /\ pre_other.len = 0 =>
                /\ outcome = "ok"
                /\ Contents = PreContents
                /\ len = pre_len
                /\ \A k \in 1..len : buf[k] # Dead
        /\ outcome = "ok" =>
                /\ Contents = SubSeq(PreContents, 1, arg_i) \o PreOtherContents
                                \o SubSeq(PreContents, arg_i + 1, pre_len)
                /\ other.len = 0

\* a vector split in its middle into an empty one, which is then appended
C21_Witness ==
    /\ op = "split_off_into_append" /\ outcome = "ok"
    /\ pre_other.len = 0
    /\ arg_i > 0 /\ pre_len - arg_i = 2

C23_SpareCapacity ==
    /\ adaptor = "spare" =>
            /\ len = pre_len
            /\ other.buf = SubSeq(buf, len + 1, Len(buf))
            /\ \A k \in 1..other.len : other.buf[k] # Dead
    /\ op = "drop_spare" =>
            /\ dropped = PreOtherContents
            /\ \A k \in 1..Len(dropped) : dropped[k] # Dead
            /\ len = pre_len
            /\ buf = pre_buf
    /\ op = "save_spare" =>
            /\ len = pre_len + pre_other.len
            /\ Contents = PreContents \o PreOtherContents
            /\ dropped = <<>>
            /\ \A k \in 1..len : buf[k] # Dead

\* a view into which two different elements were pushed is saved onto a
\* vector that holds an element
C23_Witness ==
    /\ op = "save_spare"
    /\ pre_len > 0 /\ pre_other.len = 2
    /\ pre_other.buf[1] # pre_other.buf[2]

\* how many times the element x occurs in the sequence q
Count(q, x) == Cardinality({k \in 1..Len(q) : q[k] = x})

\* how many elements the front of an IntoIter has passed: its index, and
\* once it is dropped everything up to the length that was left
Passed == IF into_iter.state = "active" THEN into_iter.index ELSE len

\* C24: for an owning iterator, after any sequence of next, next_back and
\* nth calls and its drop, exhausted or not, every element of the vector
\* has been yielded once or destroyed once, never both and never neither;
\* its index never exceeds the length that is left; and the storage is
\* released exactly once.
C24_IntoIter ==
    into_iter.state # "none" =>
        /\ into_iter.index <= len
        /\ len <= pre_len
        /\ \A k \in 1..Len(yielded_front) : yielded_front[k] # Dead
        /\ \A k \in 1..Len(yielded_back) : yielded_back[k] # Dead
        /\ \A k \in 1..Len(dropped) : dropped[k] # Dead
        /\ Len(yielded_front) + Len(dropped) + Len(yielded_back) + (len - Passed) = pre_len
        /\ \A k \in 1..Len(buf) :
                buf[k] # Dead <=> (into_iter.state = "active" /\ k > into_iter.index /\ k <= len)
        /\ yielded_back = Reverse(SubSeq(PreContents, len + 1, pre_len))
        /\ \A x \in Values :
                Count(yielded_front, x) + Count(dropped, x)
                    = Count(SubSeq(PreContents, 1, Passed), x)
        /\ into_iter.state = "active" => into_iter.storage_drops = 0
        /\ into_iter.state = "dropped" =>
                /\ into_iter.storage_drops = 1
                /\ op = "drop"

\* an IntoIter dropped early, after it yielded at both ends and an nth
\* stepped over an element
C24_Witness ==
    /\ into_iter.state = "dropped"
    /\ Len(yielded_front) = 1 /\ Len(yielded_back) = 1
    /\ Len(dropped) = 2
    /\ into_iter.index = 2 /\ len = into_iter.index + 1

\* C25: truncate(n) with n at or above the length changes nothing; with n
\* below the length it leaves the first n elements and length n and destroys
\* the rest, each once; truncating again to the same n changes nothing more;
\* truncate and clear leave the capacity as it was, and clear is truncate(0).
C25_Truncate ==
    /\ op \in {"truncate", "clear"} =>
            LET n == IF op = "clear" THEN 0 ELSE arg_i
                again == truncate(len, buf, n)
            IN /\ outcome = "ok"
               /\ capacity_of(buf) = capacity_of(pre_buf)
               /\ n >= pre_len => /\ len = pre_len
                                  /\ buf = pre_buf
                                  /\ dropped = <<>>
               /\ n < pre_len => /\ len = n
                                 /\ SubSeq(buf, 1, n) = SubSeq(pre_buf, 1, n)
                                 /\ \A k \in (n + 1)..pre_len : buf[k] = Dead
                                 /\ \A k \in (pre_len + 1)..Len(buf) : buf[k] = pre_buf[k]
                                 /\ dropped = SubSeq(pre_buf, n + 1, pre_len)
               /\ again.len = len
               /\ again.buf = buf

\* a truncate that cut a vector of three elements down to one
C25_Witness ==
    /\ op = "truncate"
    /\ pre_len = 3
    /\ arg_i = 1
    /\ len = 1
    /\ Len(dropped) = 2
    /\ \A k \in 1..2 : dropped[k] # Dead

\* the capacity the call that has just ended asked its storage for (Overflow:
\* the sum overflowed, and the storage was not asked)
Requested ==
    IF op = "push" THEN checked_add(pre_len, 1) ELSE checked_add(pre_len, arg_i)

\* the call that has just ended had to grow a heap buffer
HadToGrow ==
    /\ backend = "heap"
    /\ op \in {"push", "reserve", "try_reserve"}
    /\ Requested # Overflow
    /\ capacity_of(pre_buf) < Requested

\* the call that has just ended grew the buffer
Grew == HadToGrow /\ outcome = "ok" /\ ret # AllocError

\* the capacities whose double is no usize
TooLargeToDouble == {k \in 0..USIZE_MAX : checked_mul(k, 2) = Overflow}

\* C26: a heap reservation that has to grow the buffer from capacity k for
\* a requested capacity c leaves capacity max(c, 2 * k, 4) exactly, with the
\* elements where they were; a push onto an empty heap vector gives capacity
\* 4 and each later push onto a full one doubles it; a call that does not
\* have to grow, or fails, leaves the buffer as it was; and reserve_slow
\* panics for every capacity whose double overflows.
C26_HeapGrowth ==
    /\ Grew =>
            LET k == capacity_of(pre_buf)
            IN /\ capacity_of(buf) = Max(Max(Requested, 2 * k), INIT_ALLOC_CAPACITY)
               /\ SubSeq(buf, 1, pre_len) = SubSeq(pre_buf, 1, pre_len)
               /\ op = "push" /\ k = 0 => capacity_of(buf) = 4
               /\ op = "push" /\ k >= 2 => capacity_of(buf) = 2 * k
    /\ op \in {"push", "reserve", "try_reserve"} /\ ~Grew =>
            /\ capacity_of(buf) = capacity_of(pre_buf)
            /\ SubSeq(buf, 1, pre_len) = SubSeq(pre_buf, 1, pre_len)
            /\ op # "push" \/ outcome # "ok" => len = pre_len /\ buf = pre_buf
    /\ \A k \in TooLargeToDouble, f \in {"Abort", "Error"}, a \in BOOLEAN :
            /\ reserve_slow(uninit_array(k), k + 1, f, a).outcome = "panic"
            /\ reserve_slow(uninit_array(k), USIZE_MAX, f, a).outcome = "panic"

\* pushes onto an empty heap vector grew it to 4 slots, and the fifth push
\* has grown it to 8
C26_Witness ==
    /\ op = "push"
    /\ Grew
    /\ capacity_of(pre_buf) = 4
    /\ capacity_of(buf) = 8
    /\ len = 5

\* C27: when the allocator fails during a try_reserve of a heap vector, the
\* buffer, its capacity and the elements are exactly as before the call, and
\* the backend still owns its allocation: nothing of it was released, so the
\* allocator handle the backend holds has not been dropped.
C27_FailedReserveKeepsAllocation ==
    backend = "heap" /\ op = "try_reserve" /\ ret = AllocError =>
        /\ len = pre_len
        /\ buf = pre_buf
        /\ allocator.drops = 0

\* C28: a grow, extend_from_slice or resize that returns, no Clone having
\* panicked, leaves the elements that were there and remain unchanged and in
\* order; grow(n, v) appends exactly n elements equal to v, and grow(0, v)
\* changes nothing, v being neither cloned nor stored; extend_from_slice(t)
\* appends the elements of t in order; resize(m, v) leaves length m, cut to
\* the first m elements or filled up with elements equal to v.
C28_GrowExtendResize ==
    op \in {"grow", "extend_from_slice", "resize"} /\ outcome = "ok" /\ ~cb_panic =>
        LET kept == Min(len, pre_len)
        IN /\ SubSeq(buf, 1, kept) = SubSeq(pre_buf, 1, kept)
           /\ op = "grow" =>
                /\ len = pre_len + arg_i
                /\ \A k \in (pre_len + 1)..len : buf[k] = arg_v
                /\ arg_i = 0 => Contents = PreContents /\ made = 0
           /\ op = "extend_from_slice" =>
                /\ len = pre_len + Len(arg_s)
                /\ SubSeq(buf, pre_len + 1, len) = arg_s
           /\ op = "resize" =>
                /\ len = arg_i
                /\ \A k \in (pre_len + 1)..len : buf[k] = arg_v

\* C29: however next and next_back are interleaved on a Drain over a..b, the
\* front calls yield s[a], s[a+1], ... and the back calls s[b-1], s[b-2],
\* ...; no element is yielded twice; a call returns None exactly when all
\* b - a elements have been yielded; and size_hint is the number of elements
\* of the range not yet yielded, as both its bounds.
C29_DrainInterleaved ==
    Borrowed("drain") =>
        LET a == arg_i
            b == arg_j
            yielded == Len(yielded_front) + Len(yielded_back)
        IN /\ yielded <= b - a
           /\ \A k \in 1..Len(yielded_front) :
                    yielded_front[k] = PreContents[a + k] /\ (a + k - 1) \in removed
           /\ \A k \in 1..Len(yielded_back) :
                    yielded_back[k] = PreContents[b - k + 1] /\ (b - k) \in removed
           /\ Cardinality(removed) = yielded
           /\ op \in {"next", "next_back"} =>
                    /\ ret = None => yielded = b - a
                    /\ ret # None =>
                            ret = Some(IF op = "next" THEN yielded_front[Len(yielded_front)]
                                       ELSE yielded_back[Len(yielded_back)])
           /\ size_hint(raw) = [lower |-> (b - a) - yielded, upper |-> Some((b - a) - yielded)]

\* a Drain over three elements that do not start the vector, taken from
\* both ends, which has just returned None to a next
C29_Witness ==
    /\ Borrowed("drain")
    /\ arg_i > 0
    /\ Len(yielded_front) >= 1
    /\ Len(yielded_back) >= 1
    /\ Len(yielded_front) + Len(yielded_back) = arg_j - arg_i
    /\ Len(yielded_front) + Len(yielded_back) >= 3
    /\ op = "next" /\ ret = None
    /\ size_hint(raw).lower = 0

\* the operations that take a range
RangeOps == {"raw_cursor", "cursor", "drain", "drain_filter", "splice"}

\* C30: raw_cursor, cursor, drain, drain_filter and splice panic when the
\* start of the range is above its end or its end is above the length; the
\* vector then has the length and the buffer it had, no cursor or iterator
\* exists, and nothing was yielded, removed or destroyed; any other range
\* is accepted.
C30_RangeRefused ==
    op \in RangeOps =>
        IF arg_i > arg_j \/ arg_j > pre_len
        THEN /\ outcome = "panic"
             /\ len = pre_len
             /\ buf = pre_buf
             /\ adaptor = "none"
             /\ raw = NoCursor
             /\ yielded_front = <<>>
             /\ yielded_back = <<>>
             /\ removed = {}
             /\ dropped = <<>>
        ELSE /\ outcome = "ok"
             /\ adaptor = op

\* a splice with a replacement over a backwards range inside the vector
C30_Witness ==
    /\ op = "splice"
    /\ outcome = "panic"
    /\ arg_i > arg_j
    /\ arg_i <= pre_len
    /\ arg_s # <<>>
    /\ len >= 2

\* C31: a retain(f) that returns keeps exactly the elements f accepts, in
\* their original order, destroys the others, each once and in their
\* original order, and has called f once for each element of the vector.
C31_Retain ==
    op = "retain" /\ outcome = "ok" =>
        LET Kept(x) == x \notin filter
            Rejected(x) == x \in filter
        IN /\ Contents = SelectSeq(PreContents, Kept)
           /\ dropped = SelectSeq(PreContents, Rejected)
           /\ removed = {i \in 0..(pre_len - 1) : Rejected(PreContents[i + 1])}
           /\ len + Len(dropped) = pre_len
           /\ made = pre_len
           /\ ~cb_panic
           /\ \A k \in 1..Len(buf) : buf[k] # Dead <=> k <= len

\* a retain on three elements that removed the first and the last
C31_Witness ==
    /\ op = "retain"
    /\ outcome = "ok"
    /\ pre_len = 3
    /\ removed = {0, 2}
    /\ len = 1
    /\ made = 3

\* C32: a heap vector turned into a Vec and back has the length, the capacity
\* and the elements it had, in the block it had; a Vec turned into a heap
\* vector and back likewise; each conversion hands the block over as it is,
\* with the same length and capacity, and clones and destroys nothing.
C32_VecRoundTrip ==
    /\ op = "into_vec" =>
            /\ other.len = pre_len /\ other.cap = capacity_of(pre_buf) /\ other.buf = pre_buf
            /\ len = 0 /\ buf = <<>>
    /\ op = "from_vec" =>
            /\ len = pre_other.len /\ capacity_of(buf) = pre_other.cap /\ buf = pre_other.buf
            /\ other = NoVec
    /\ op = "into_vec_from_vec" =>
            /\ len = pre_len /\ capacity_of(buf) = capacity_of(pre_buf) /\ buf = pre_buf
            /\ Contents = PreContents
            /\ other = NoVec
    /\ op = "from_vec_into_vec" =>
            /\ other = pre_other
            /\ len = 0 /\ buf = <<>>
    /\ op \in {"into_vec", "from_vec", "into_vec_from_vec", "from_vec_into_vec"} =>
            made = 0 /\ dropped = <<>> /\ outcome = "ok"

\* a heap vector with spare capacity that went to a Vec and came back
C32_Witness ==
    /\ op = "into_vec_from_vec"
    /\ len = 2
    /\ capacity_of(buf) = 4
    /\ buf[1] # buf[2]

-----------------------------------------------------------------------------
(* dedup_by *)

\* the equality relations passed to dedup_by: the pairs <<a, b>> for which
\* same_bucket(a, b) returns true; any relation, an equivalence or not
EqInputs == SUBSET (Values \X Values)

\* same_bucket(a, b), the caller's closure
same_bucket(eq, a, b) == <<a, b>> \in eq

\* mem::swap(ptr.add(i), ptr.add(j))
mem_swap(b, i, j) == [b EXCEPT ![i + 1] = b[j + 1], ![j + 1] = b[i + 1]]

\* a scan that counts the retained elements but never moves them forward
RECURSIVE partition_dedup_by_no_swap(_, _, _, _, _)
partition_dedup_by_no_swap(b, l, eq, next_read, next_write) ==
    IF l <= 1 THEN [buf |-> b, len |-> l]
    ELSE IF next_read >= l THEN [buf |-> b, len |-> next_write]
    ELSE IF ~same_bucket(eq, ptr_read(b, next_read), ptr_read(b, next_write - 1))
         THEN partition_dedup_by_no_swap(b, l, eq, next_read + 1, next_write + 1)
         ELSE partition_dedup_by_no_swap(b, l, eq, next_read + 1, next_write)

\* slice::partition_dedup_by from next_read on: every element is compared
\* with the last one retained and, if it is not in its bucket, swapped to
\* the end of the retained prefix; the buffer afterwards and the length of
\* the prefix
RECURSIVE partition_dedup_by(_, _, _, _, _)
partition_dedup_by(b, l, eq, next_read, next_write) ==
    IF l <= 1 THEN [buf |-> b, len |-> l]
    ELSE IF next_read >= l THEN [buf |-> b, len |-> next_write]
    ELSE IF ~same_bucket(eq, ptr_read(b, next_read), ptr_read(b, next_write - 1))
         THEN partition_dedup_by(IF next_read # next_write
                                 THEN mem_swap(b, next_read, next_write) ELSE b,
                                 l, eq, next_read + 1, next_write + 1)
         ELSE partition_dedup_by(b, l, eq, next_read + 1, next_write)

\* the call o of dedup_by with the relation eq: the scan, then truncate to
\* the retained prefix
DedupCall(o, eq) ==
    LET a == partition_dedup_by(buf, len, eq, 1, 1)
        t == truncate(len, a.buf, a.len)
    IN /\ op' = o
       /\ outcome' = "ok"
       /\ ret' = Unit
       /\ len' = t.len
       /\ buf' = t.buf
       /\ pre_len' = len
       /\ pre_buf' = buf
       /\ dropped' = SubSeq(a.buf, a.len + 1, len)
       /\ filter' = eq
       /\ UNCHANGED <<backend, allocator, arg_i, arg_j, arg_v, arg_s, made, cb_panic,
                      adaptor, raw, panicking, replace_with, yielded_front,
                      yielded_back, removed, into_iter, othervars>>

\* GenericVec::dedup_by
DedupBy(eq) ==
    /\ Idle
    /\ DedupCall("dedup_by", eq)

\* GenericVec::dedup_by, called again with the same relation on the vector
\* the first call left
DedupByAgain ==
    /\ op = "dedup_by"
    /\ DedupCall("dedup_by_again", filter)

NextDedup ==
    \/ \E v \in Values, a \in AllocChoices : Push(v, a)
    \/ Idle /\ \E eq \in EqInputs : DedupBy(eq)
    \/ DedupByAgain
    \/ Return

SpecDedup == InitArray /\ [][NextDedup]_vars

\* eq is an equivalence on the values
IsEquivalence(eq) ==
    /\ \A a \in Values : <<a, a>> \in eq
    /\ \A a, b \in Values : <<a, b>> \in eq => <<b, a>> \in eq
    /\ \A a, b, c \in Values : <<a, b>> \in eq /\ <<b, c>> \in eq => <<a, c>> \in eq

\* the positions of s that start a maximal run of adjacent elements
\* considered equal by eq
RunStarts(s, eq) == {i \in 1..Len(s) : i = 1 \/ <<s[i], s[i - 1]>> \notin eq}

\* the elements of s at the positions in K, in the order of s
Pick(s, K) ==
    [n \in 1..Cardinality(K) |->
        s[CHOOSE i \in K : Cardinality({j \in K : j <= i}) = n]]

\* how often v occurs in s
Occurrences(s, v) == Cardinality({i \in 1..Len(s) : s[i] = v})

\* C33: dedup_by(eq) retains exactly the first element of each maximal run of
\* adjacent elements that eq considers equal, in the original order, and
\* destroys each other element exactly once; afterwards eq considers no two
\* adjacent elements equal, and dedup_by(eq) again changes nothing.
C33_DedupBy ==
    /\ op = "dedup_by" /\ IsEquivalence(filter) =>
            LET K == RunStarts(PreContents, filter)
                rest == Pick(PreContents, (1..pre_len) \ K)
            IN /\ Contents = Pick(PreContents, K)
               /\ \A v \in Slot : Occurrences(dropped, v) = Occurrences(rest, v)
    /\ op = "dedup_by" =>
            /\ outcome = "ok"
            /\ \A i \in 2..len : <<buf[i], buf[i - 1]>> \notin filter
            /\ \A v \in Values :
                    Occurrences(Contents, v) + Occurrences(dropped, v)
                        = Occurrences(PreContents, v)
            /\ \A k \in (len + 1)..pre_len : buf[k] = Dead
    /\ op = "dedup_by_again" =>
            /\ outcome = "ok"
            /\ len = pre_len
            /\ buf = pre_buf
            /\ dropped = <<>>

\* a first run of one, then a run of two whose first element had to move
\* forward over a destroyed duplicate, under an equivalence
C33_Witness ==
    /\ op = "dedup_by"
    /\ IsEquivalence(filter)
    /\ pre_len = 3
    /\ pre_buf[1] = pre_buf[2]
    /\ pre_buf[2] # pre_buf[3]
    /\ len = 2
    /\ Len(dropped) = 1

-----------------------------------------------------------------------------
(* pop_array and try_pop_array (feature "nightly") *)

\* [S::Item; N] returned by value
Array(s) == Ret("Array", -1, s)

SomeArray(s) == Ret("SomeArray", -1, s)

\* the match on S::CONST_CAPACITY in pop_array_unchecked: Some(n) with n < N
const_capacity_below(bk, b, N) == bk = "array" /\ capacity_of(b) < N

\* debug_assert!(len > N) of pop_array_unchecked, in a build with
\* debug assertions
pop_array_debug_assert_fails(l, N) == ~(l > N)

\* ptr.add(l2).cast::<[S::Item; N]>().read() of a range the buffer holds
read_array(b, l2, N) == [k \in 1..N |-> ptr_read(b, l2 + k - 1)]

\* GenericVec::pop_array_unchecked called as o, in a build with (debug) or
\* without debug assertions; kind says how the array is returned
pop_array_unchecked(o, N, debug, kind) ==
    IF const_capacity_below(backend, buf, N) THEN Failed(o, N, -1, "panic")
    ELSE IF debug /\ pop_array_debug_assert_fails(len, N) THEN Failed(o, N, -1, "panic")
    ELSE LET l2 == wrapping_sub(len, N)
         IN IF len >= N
            THEN Call(o, N, -1, "ok", Ret(kind, -1, read_array(buf, l2, N)), l2,
                      moved_out_n(buf, l2, N))
            ELSE Undefined(o, N, -1, Ret(kind, -1, [k \in 1..N |-> Dead]), l2)

\* GenericVec::pop_array::<N>
PopArray(N, debug) ==
    /\ Idle
    /\ IF len < N THEN Failed("pop_array", N, -1, "panic")
       ELSE pop_array_unchecked("pop_array", N, debug, "Array")

\* GenericVec::try_pop_array::<N>
TryPopArray(N, debug) ==
    /\ Idle
    /\ IF is_empty(len) THEN Call("try_pop_array", N, -1, "ok", None, len, buf)
       ELSE pop_array_unchecked("try_pop_array", N, debug, "SomeArray")

\* the array lengths N asked for
ArrayLenInputs == 0..(MaxCap + 1)

NextPopArray ==
    \/ \E v \in Values, a \in AllocChoices : Push(v, a)
    \/ Idle /\ \E N \in ArrayLenInputs, debug \in BOOLEAN : PopArray(N, debug)
    \/ Idle /\ \E N \in ArrayLenInputs, debug \in BOOLEAN : TryPopArray(N, debug)
    \/ Return

SpecPopArray == Init /\ [][NextPopArray]_vars

\* C34: pop_array::<N>() returns the last N elements in order and reduces the
\* length by N whenever length >= N (length = N included) and panics only
\* when length < N; try_pop_array::<N>() returns None and changes nothing
\* whenever length < N, and never panics.
C34_PopArray ==
    /\ op = "pop_array" /\ pre_len >= arg_i =>
            /\ outcome = "ok"
            /\ ret = Array(SubSeq(pre_buf, pre_len - arg_i + 1, pre_len))
            /\ len = pre_len - arg_i
            /\ Contents = SubSeq(pre_buf, 1, pre_len - arg_i)
    /\ op = "pop_array" /\ outcome = "panic" => pre_len < arg_i
    /\ op = "pop_array" /\ pre_len < arg_i => outcome = "panic" /\ Unmodified
    /\ op = "try_pop_array" /\ pre_len < arg_i =>
            outcome = "ok" /\ ret = None /\ Unmodified
    /\ op = "try_pop_array" => outcome # "panic"

-----------------------------------------------------------------------------
(* The mutators that add elements, statement by statement: outcome holds the
   position inside the call until it ends *)

\* the call o(i, v, s) has started and stands at position pos, with length l
\* and buffer b
Begins(o, pos, i, v, s, l, b) == CallUser(o, i, v, s, pos, NoRet, l, b, 0, FALSE, <<>>)

\* the call in progress goes on to position pos (or ends, pos = "ok", and
\* returns r) with length l and buffer b, having written m elements
GoesOn(pos, r, l, b, m) ==
    /\ outcome' = pos
    /\ ret' = r
    /\ len' = l
    /\ buf' = b
    /\ made' = m
    /\ UNCHANGED <<backend, allocator, op, arg_i, arg_j, arg_v, arg_s, pre_len, pre_buf,
                   cb_panic, dropped, itervars, othervars>>

\* the call in progress stands at position pos of o
At(o, pos) == op = o /\ outcome = pos

\* GenericVec::push up to push_unchecked's set_len_unchecked(len + 1)
PushSetsLen(value, alloc_ok) ==
    /\ Idle
    /\ LET r == IF len = capacity_of(buf) THEN reserve(backend, len, buf, 1, alloc_ok)
                ELSE StorageResult("ok", buf)
       IN IF r.outcome = "ok"
          THEN Begins("push", "len_set", -1, value, <<>>, wrapping_add(len, 1), r.buf)
          ELSE Failed("push", -1, value, r.outcome)

\* push_unchecked: ptr = as_mut_ptr().add(len); ptr.write(value); &mut *ptr
PushWrites ==
    /\ At("push", "len_set")
    /\ GoesOn("ok", RefTo(pre_len, arg_v), len, ptr_write(buf, pre_len, arg_v), 1)

\* GenericVec::insert up to insert_unchecked's set_len_unchecked(len + 1)
InsertSetsLen(index, value, alloc_ok) ==
    /\ Idle
    /\ IF insert_check_fails(index, len) THEN Failed("insert", index, value, "panic")
       ELSE LET r == IF is_full(len, buf) THEN reserve(backend, len, buf, 1, alloc_ok)
                     ELSE StorageResult("ok", buf)
            IN IF r.outcome = "ok"
               THEN Begins("insert", "len_set", index, value, <<>>,
                           wrapping_add(len, 1), r.buf)
               ELSE Failed("insert", index, value, r.outcome)

\* insert_unchecked: ptr = self.as_mut().as_mut_ptr().add(index), a pointer
\* taken from the slice of the len elements, then
\* ptr.add(1).copy_from(ptr, len - index)
InsertShifts ==
    /\ At("insert", "len_set")
    /\ GoesOn("shifted", NoRet, len,
              copy_from(buf, arg_i + 1, arg_i, wrapping_sub(pre_len, arg_i)), 0)

\* insert_unchecked: ptr.write(value); &mut *ptr
InsertWrites ==
    /\ At("insert", "shifted")
    /\ GoesOn("ok", RefTo(arg_i, arg_v), len, ptr_write(buf, arg_i, arg_v), 1)

\* GenericVec::grow up to clone_grow's writer over the spare capacity
GrowReserves(additional, value, alloc_ok) ==
    /\ Idle
    /\ LET r == reserve(backend, len, buf, additional, alloc_ok)
       IN IF r.outcome = "ok"
          THEN Begins("grow", "writing", additional, value, <<>>, len, r.buf)
          ELSE Failed("grow", additional, value, r.outcome)

\* clone_grow: writer.push_unchecked(value.clone()), or of value itself the
\* last time, into the next slot of the spare capacity
GrowWrites ==
    /\ At("grow", "writing")
    /\ made < arg_i
    /\ GoesOn("writing", NoRet, len, ptr_write(buf, len + made, arg_v), made + 1)

\* clone_grow: vec.set_len_unchecked(writer.len() + vec.len())
GrowSetsLen ==
    /\ At("grow", "writing")
    /\ made = arg_i
    /\ GoesOn("ok", Unit, len + made, buf, made)

\* GenericVec::extend_from_slice up to clone_extend_from_slice's writer over
\* the spare capacity
ExtendFromSliceReserves(slice, alloc_ok) ==
    /\ Idle
    /\ LET r == reserve(backend, len, buf, Len(slice), alloc_ok)
       IN IF r.outcome = "ok"
          THEN Begins("extend_from_slice", "writing", -1, -1, slice, len, r.buf)
          ELSE Failed("extend_from_slice", -1, -1, r.outcome)

\* clone_extend_from_slice: writer.push_unchecked(value) of the next clone
ExtendFromSliceWrites ==
    /\ At("extend_from_slice", "writing")
    /\ made < Len(arg_s)
    /\ GoesOn("writing", NoRet, len, ptr_write(buf, len + made, arg_s[made + 1]), made + 1)

\* clone_extend_from_slice: vec.set_len_unchecked(writer.len() + vec.len())
ExtendFromSliceSetsLen ==
    /\ At("extend_from_slice", "writing")
    /\ made = Len(arg_s)
    /\ GoesOn("ok", Unit, len + made, buf, made)

\* the caller goes on after a call that has ended
ReturnEnded == outcome \in {"ok", "panic"} /\ Return

\* additional capacities small enough to be written out
SmallAdditionalInputs == 0..(MaxCap + 1)

NextAdd ==
    \/ \E v \in Values, a \in AllocChoices : PushSetsLen(v, a)
    \/ PushWrites
    \/ Idle /\ \E i \in IndexInputs, v \in Values, a \in AllocChoices : InsertSetsLen(i, v, a)
    \/ InsertShifts
    \/ InsertWrites
    \/ Idle /\ \E n \in SmallAdditionalInputs, v \in Values, a \in AllocChoices :
            GrowReserves(n, v, a)
    \/ GrowWrites
    \/ GrowSetsLen
    \/ Idle /\ \E sl \in SliceInputs, a \in AllocChoices : ExtendFromSliceReserves(sl, a)
    \/ ExtendFromSliceWrites
    \/ ExtendFromSliceSetsLen
    \/ ReturnEnded

SpecAdd == Init /\ [][NextAdd]_vars

\* the call in progress adds elements
Adding == op \in {"push", "insert", "grow", "extend_from_slice"}

\* C35: push, insert, grow and extend_from_slice write the new elements into
\* the buffer first and extend the length afterwards: at no step of the call
\* does [0, length) hold a slot that has not been written.
C35_WriteBeforeLength ==
    Adding => \A k \in 1..len : k <= Len(buf) /\ buf[k] # Dead

-----------------------------------------------------------------------------
(* truncate, statement by statement *)

\* the call in progress destroys the slot i of the buffer and goes on to
\* position pos
Destroys(pos, r, i) ==
    /\ outcome' = pos
    /\ ret' = r
    /\ buf' = moved_out(buf, i)
    /\ made' = made + 1
    /\ dropped' = Append(dropped, ptr_read(buf, i))
    /\ UNCHANGED <<backend, allocator, len, op, arg_i, arg_j, arg_v, arg_s, pre_len, pre_buf,
                   cb_panic, itervars, othervars>>

\* the position after the call in progress has destroyed one more slot of
\* the diff it has to destroy
AfterDrop(diff) == IF made + 1 = diff THEN "ok" ELSE "dropping"

\* GenericVec::truncate up to set_len_unchecked(len); nothing happens when
\* checked_sub gives None, and nothing is left to do when it gives Some(0)
TruncateSetsLen(n) ==
    /\ Idle
    /\ LET diff == checked_sub(len, n)
       IN CASE diff = Overflow -> Call("truncate", n, -1, "ok", Unit, len, buf)
            [] diff = 0 -> Call("truncate", n, -1, "ok", Unit, n, buf)
            [] OTHER -> Begins("truncate", "dropping", n, -1, <<>>, n, buf)

\* a drop_in_place of the slice that starts with its last element
TruncateDrops_backward ==
    /\ At("truncate", "dropping")
    /\ LET diff == pre_len - arg_i
       IN Destroys(AfterDrop(diff), IF made + 1 = diff THEN Unit ELSE NoRet,
                   pre_len - 1 - made)

\* truncate: drop_in_place(slice::from_raw_parts_mut(ptr.add(len), diff)),
\* the destructor of the next element of the slice
TruncateDrops ==
    /\ At("truncate", "dropping")
    /\ LET diff == pre_len - arg_i
       IN Destroys(AfterDrop(diff), IF made + 1 = diff THEN Unit ELSE NoRet,
                   arg_i + made)

NextTruncate ==
    \/ \E v \in Values, a \in AllocChoices : Push(v, a)
    \/ Idle /\ \E n \in IndexInputs : TruncateSetsLen(n)
    \/ TruncateDrops
    \/ ReturnEnded

SpecTruncate == Init /\ [][NextTruncate]_vars

\* a truncate(n) with n < length is in progress or has ended
Truncating == op = "truncate" /\ arg_i < pre_len

\* the elements the call has destroyed so far are the first ones of
\* buffer[n..length), in ascending order of index, and only their slots
\* have changed
DroppedForward ==
    /\ made <= pre_len - arg_i
    /\ dropped = SubSeq(pre_buf, arg_i + 1, arg_i + made)
    /\ buf = moved_out_n(pre_buf, arg_i, made)
    /\ outcome = "ok" <=> made = pre_len - arg_i

\* C36 as stated: truncate(n) with n < length drops buffer[n..length) in
\* forward order and then sets length = n, so the length is still the old
\* one until the last element has been dropped.
C36_DropThenSetLength ==
    Truncating =>
        /\ DroppedForward
        /\ len = IF made = pre_len - arg_i THEN arg_i ELSE pre_len

\* C36: truncate(n) with n < length sets length = n and then drops
\* buffer[n..length) in forward (ascending index) order: the length is n at
\* every step of the drop.
C36_SetLengthThenDrop ==
    Truncating =>
        /\ DroppedForward
        /\ len = arg_i

\* two of three trailing elements that differ have been dropped
C36_Witness ==
    /\ Truncating
    /\ outcome = "dropping"
    /\ pre_len - arg_i = 3
    /\ made = 2
    /\ dropped[1] # dropped[2]

\* C37: the safe set_len(n) panics when n > capacity() and otherwise sets
\* the length to n; after it returns, every slot of [0, length) holds an
\* initialized element: set_len never makes a slot that was never written or
\* was moved out part of the vector's contents.
C37_SetLenKeepsInitialized ==
    /\ op = "set_len" /\ arg_i > capacity_of(pre_buf) => outcome = "panic" /\ Unmodified
    /\ op = "set_len" /\ arg_i <= capacity_of(pre_buf) => outcome = "ok" /\ len = arg_i
    /\ op = "set_len" /\ outcome = "ok" => \A k \in 1..len : buf[k] # Dead

\* the backends whose capacity is fixed
FixedBackends == {"array", "slice"}

\* every slot of [0, l) of the buffer b holds an element
AllLive(l, b) == \A k \in 1..l : k <= Len(b) /\ b[k] # Dead

\* C38: when other is a fixed-capacity vector with less remaining capacity
\* than length - i, split_off_into(i, other), and so an append into such a
\* vector, panics before any element is moved: both vectors keep their
\* length and contents and every element stays owned by exactly one of them.
C38_SplitIntoFullPanics ==
    /\ (/\ op = "split_off_into"
        /\ pre_other.backend \in FixedBackends
        /\ arg_i <= pre_len
        /\ Len(pre_other.buf) - pre_other.len < pre_len - arg_i) =>
            /\ outcome = "panic"
            /\ Unmodified
            /\ other = pre_other
            /\ AllLive(len, buf) /\ AllLive(other.len, other.buf)
    /\ (/\ op = "append"
        /\ backend \in FixedBackends
        /\ Len(pre_buf) - pre_len < pre_other.len) =>
            /\ outcome = "panic"
            /\ Unmodified
            /\ other = pre_other
            /\ AllLive(len, buf) /\ AllLive(other.len, other.buf)

\* two elements were to be split off into an array that held elements and
\* had room for one more only
C38_Witness ==
    /\ op = "split_off_into"
    /\ outcome = "panic"
    /\ pre_other.backend = "array"
    /\ pre_other.len > 0
    /\ Len(pre_other.buf) - pre_other.len = 1
    /\ pre_len - arg_i = 2

-----------------------------------------------------------------------------
(* Extend *)

\* <GenericVec as Extend>::extend of an iterator that yields items and
\* whose size_hint().0 is hint: the result of try_reserve is ignored, then
\* every item is pushed
extend_hinted(bk, l, b, items, hint, alloc_ok) ==
    LET r == try_reserve(bk, l, b, hint, alloc_ok)
    IN IF r.outcome = "panic" THEN ExtendResult("panic", l, b)
       ELSE push_each(bk, l, IF r.outcome = "ok" THEN r.buf ELSE b, items, alloc_ok)

\* GenericVec::extend(iter)
Extend(items, hint, alloc_ok) ==
    /\ Idle
    /\ LET e == extend_hinted(backend, len, buf, items, hint, alloc_ok)
       IN CallUser("extend", hint, -1, items, e.outcome,
                   IF e.outcome = "ok" THEN Unit ELSE NoRet,
                   e.len, e.buf, e.len - len, FALSE, <<>>)

\* An iterator's size_hint().0 is a lower bound of what it yields.
NextExtend ==
    \/ \E v \in Values, a \in AllocChoices : Push(v, a)
    \/ Idle /\ \E items \in SliceInputs, a \in AllocChoices :
            \E hint \in 0..Len(items) : Extend(items, hint, a)
    \/ Return

SpecExtend == Init /\ [][NextExtend]_vars

\* C39: extend(iter) pushes the iterator's items one by one in order; on a
\* fixed-capacity vector, when the iterator yields more items than there is
\* remaining capacity, extend panics when the first item that does not fit
\* is pushed, and the vector then holds its prior contents followed by the
\* items pushed so far: it is full, and length <= capacity.
C39_Extend ==
    op = "extend" =>
        /\ len <= capacity_of(buf)
        /\ len >= pre_len
        /\ Contents = PreContents \o SubSeq(arg_s, 1, len - pre_len)
        /\ outcome = "ok" => len = pre_len + Len(arg_s)
        /\ backend \in FixedBackends =>
                IF Len(arg_s) > capacity_of(pre_buf) - pre_len
                THEN /\ outcome = "panic"
                     /\ len = capacity_of(pre_buf)
                     /\ buf = [k \in 1..Len(pre_buf) |->
                                  IF k > pre_len THEN arg_s[k - pre_len] ELSE pre_buf[k]]
                ELSE outcome = "ok"

\* two items for an array with room for one, which held elements
C39_Witness ==
    /\ op = "extend"
    /\ backend = "array"
    /\ outcome = "panic"
    /\ pre_len > 0
    /\ capacity_of(pre_buf) - pre_len = 1
    /\ Len(arg_s) = 2
    /\ len = pre_len + 1

====
